---- MODULE Spec2Model ----
(***************************************************************************)
(* Continuation drivers of crates/auto-rs (natural_continuation,           *)
(* arclength_continuation, branch_switch) as a state machine.              *)
(*                                                                         *)
(* Numbers.  An f64 is modelled as a binary floating-point number with a   *)
(* MantBits-bit significand on the integer grid (the grid unit plays the   *)
(* part of the smallest subnormal): every arithmetic result is rounded to  *)
(* the nearest representable value, ties to even.  Tangents are kept as    *)
(* integer direction vectors D, the unit tangent of the code being         *)
(* D / |D|; tests on a unit tangent are evaluated exactly on D.            *)
(***************************************************************************)
EXTENDS Integers, Sequences, FiniteSets, TLC

\* ------------------------------------------------------------------ bounds
MantBits == 4
MaxSteps == 3
MaxNewtonIter == 3
MaxDim == 4
XMax == 2
ParMax == 9
MaxPoints == 5

\* ------------------------------------------------- floating-point arithmetic
RECURSIVE Pow2(_)
Pow2(k) == IF k = 0 THEN 1 ELSE 2 * Pow2(k - 1)

Abs(v) == IF v < 0 THEN -v ELSE v

Sign(v) == IF v < 0 THEN -1 ELSE IF v > 0 THEN 1 ELSE 0

\* the first magnitude that needs more than MantBits bits
MantLimit == Pow2(MantBits)

RECURSIVE ExpOf(_, _, _)
ExpOf(a, den, e) ==
    IF a < MantLimit * Pow2(e) * den THEN e ELSE ExpOf(a, den, e + 1)

\* a / scale rounded to an integer, ties to the even one, times unit
RoundScaled(a, scale, unit) ==
    IF 2 * (a % scale) > scale \/ (2 * (a % scale) = scale /\ (a \div scale) % 2 = 1)
    THEN ((a \div scale) + 1) * unit
    ELSE (a \div scale) * unit

RoundAt(a, den, e) == RoundScaled(a, Pow2(e) * den, Pow2(e))

\* nearest representable value to a / den, for a >= 0 and den > 0
RoundNat(a, den) == RoundAt(a, den, ExpOf(a, den, 0))

Round(num, den) ==
    IF den = 1 /\ -MantLimit < num /\ num < MantLimit THEN num
    ELSE Sign(num) * RoundNat(Abs(num), den)

FAdd(a, b) == Round(a + b, 1)
FSub(a, b) == Round(a - b, 1)
FMul(a, b) == Round(a * b, 1)
FDiv(a, b) == IF b > 0 THEN Round(a, b) ELSE Round(-a, -b)
\* a variant of FMin that returns the larger value
FMax(a, b) == IF b > a THEN b ELSE a
\* f64::min
FMin(a, b) == IF b < a THEN b ELSE a
\* a * 1.5 and a / 2.0
FMul15(a) == Round(3 * a, 2)
\* a variant of FHalf that divides by 4.0
FQuarter(a) == Round(a, 4)
FHalf(a) == Round(a, 2)

RECURSIVE ISqrtFrom(_, _)
ISqrtFrom(v, s) == IF (s + 1) * (s + 1) > v THEN s ELSE ISqrtFrom(v, s + 1)

\* the integer part of sqrt(v), found from that of sqrt(v / 4)
RECURSIVE ISqrt(_)
ISqrt(v) == IF v < 4 THEN ISqrtFrom(v, 0) ELSE ISqrtFrom(v, 2 * ISqrt(v \div 4))

\* sqrt(v) rounded to the nearest integer, s being its integer part
SqrtNearest(v, s) == IF v <= s * s + s THEN s ELSE s + 1

\* f64::sqrt of v >= 0
FSqrt(v) == Round(SqrtNearest(v, ISqrt(v)), 1)

Representable(v) == Round(v, 1) = v

\* ------------------------------------------------------ the OdeSystem trait
Systems == {"FoldNormalForm", "HopfNormalForm", "PitchforkNormalForm"}

dim(sys) == IF sys = "HopfNormalForm" THEN 2 ELSE 1

Fold_rhs(xs, mu) == << FSub(mu, FMul(xs[1], xs[1])) >>

\* a variant of Fold_jacobian with the sign of the derivative reversed
Fold_jacobian_reversed(xs, mu) == << << FMul(2, xs[1]) >> >>

Fold_jacobian(xs, mu) == << << FMul(-2, xs[1]) >> >>

Hopf_rhs_r2(xs, mu, r2) ==
    << FSub(FSub(FMul(mu, xs[1]), xs[2]), FMul(xs[1], r2)),
       FSub(FAdd(xs[1], FMul(mu, xs[2])), FMul(xs[2], r2)) >>

Hopf_rhs(xs, mu) == Hopf_rhs_r2(xs, mu, FAdd(FMul(xs[1], xs[1]), FMul(xs[2], xs[2])))

Hopf_jacobian(xs, mu) ==
    << << FSub(FSub(mu, FMul(FMul(3, xs[1]), xs[1])), FMul(xs[2], xs[2])),
          FSub(-1, FMul(FMul(2, xs[1]), xs[2])) >>,
       << FSub(1, FMul(FMul(2, xs[1]), xs[2])),
          FSub(FSub(mu, FMul(xs[1], xs[1])), FMul(FMul(3, xs[2]), xs[2])) >> >>

Pitchfork_rhs(xs, mu) ==
    << FSub(FMul(mu, xs[1]), FMul(FMul(xs[1], xs[1]), xs[1])) >>

Pitchfork_jacobian(xs, mu) ==
    << << FSub(mu, FMul(FMul(3, xs[1]), xs[1])) >> >>

rhs(sys, xs, p) ==
    CASE sys = "FoldNormalForm" -> Fold_rhs(xs, p)
      [] sys = "HopfNormalForm" -> Hopf_rhs(xs, p)
      [] sys = "PitchforkNormalForm" -> Pitchfork_rhs(xs, p)

jacobian(sys, xs, p) ==
    CASE sys = "FoldNormalForm" -> Fold_jacobian(xs, p)
      [] sys = "HopfNormalForm" -> Hopf_jacobian(xs, p)
      [] sys = "PitchforkNormalForm" -> Pitchfork_jacobian(xs, p)

\* ------------------------------------------------------------- eigenvalues
Trace2(a) == FAdd(a[1][1], a[2][2])

Det2(a) == FSub(FMul(a[1][1], a[2][2]), FMul(a[1][2], a[2][1]))

Discriminant(trace, det) == FSub(FMul(trace, trace), FMul(4, det))

RealPair(trace, sqrt_d) ==
    << << FDiv(FAdd(trace, sqrt_d), 2), 0 >>, << FDiv(FSub(trace, sqrt_d), 2), 0 >> >>

\* a variant of ConjugatePair that puts the negative imaginary part first
ConjugatePairReversed(real, imag) == << << real, -imag >>, << real, imag >> >>

ConjugatePair(real, imag) == << << real, imag >>, << real, -imag >> >>

EigenFromDiscriminant(trace, discriminant) ==
    IF discriminant >= 0
    THEN RealPair(trace, FSqrt(discriminant))
    ELSE ConjugatePair(FDiv(trace, 2), FDiv(FSqrt(-discriminant), 2))

eigenvalues_2x2(a) ==
    EigenFromDiscriminant(Trace2(a), Discriminant(Trace2(a), Det2(a)))

\* n = 0, 1, 2 (the systems modelled have dimension 1 or 2)
compute_eigenvalues(a) ==
    IF Len(a) = 0 THEN << >>
    ELSE IF Len(a) = 1 THEN << << a[1][1], 0 >> >>
    ELSE eigenvalues_2x2(a)

\* a variant of IsStable that tests re <= 0.0
IsStableNonStrict(eigenvalues) ==
    \A i \in 1..Len(eigenvalues) : eigenvalues[i][1] <= 0

\* eigenvalues.iter().all(|&(re, _)| re < 0.0)
IsStable(eigenvalues) ==
    \A i \in 1..Len(eigenvalues) : eigenvalues[i][1] < 0

\* --------------------------------------------------- bifurcation detection
\* Vec::sort_by(|a, b| b.0.partial_cmp(&a.0)): stable, descending real part
RECURSIVE InsertDesc(_, _)
InsertDesc(sorted, e) ==
    IF sorted = << >> THEN << e >>
    ELSE IF Head(sorted)[1] >= e[1]
         THEN << Head(sorted) >> \o InsertDesc(Tail(sorted), e)
         ELSE << e >> \o sorted

RECURSIVE SortDesc(_)
SortDesc(eigs) ==
    IF eigs = << >> THEN << >>
    ELSE InsertDesc(SortDesc(SubSeq(eigs, 1, Len(eigs) - 1)), eigs[Len(eigs)])

\* v.abs() < 1e-6 and v.abs() > 1e-6 on the integer grid
ImagSmall(v) == Abs(v) * 1000000 < 1
\* a variant of ImagLarge that holds of every imaginary part
ImagAny(v) == TRUE

ImagLarge(v) == Abs(v) * 1000000 > 1

RECURSIVE detect_scan(_, _, _)
detect_scan(prev_sorted, curr_sorted, i) ==
    IF i > Len(prev_sorted) THEN "None"
    ELSE LET prev_re == prev_sorted[i][1]
             curr_re == curr_sorted[i][1]
             prev_im == prev_sorted[i][2]
             curr_im == curr_sorted[i][2]
         IN  IF FMul(prev_re, curr_re) < 0 /\ ImagSmall(prev_im) /\ ImagSmall(curr_im)
             THEN "SaddleNode"
             ELSE IF FMul(prev_re, curr_re) < 0 /\ ImagLarge(prev_im)
             THEN "Hopf"
             ELSE detect_scan(prev_sorted, curr_sorted, i + 1)

detect_bifurcation(prev_eigs, curr_eigs) ==
    IF Len(prev_eigs) # Len(curr_eigs) THEN "None"
    ELSE detect_scan(SortDesc(prev_eigs), SortDesc(curr_eigs), 1)

\* re.abs() < 0.1
find_critical_eigenvalues(eigenvalues) ==
    SelectSeq(eigenvalues, LAMBDA e : Abs(e[1]) * 10 < 1)

\* ------------------------------------------------------------ linear solve
\* Gaussian elimination with partial pivoting on an n x n system, n <= 2, in
\* exact arithmetic: the solution is num[i] / den with den > 0; a pivot below
\* 1e-15 is a pivot equal to 0 on the grid.
solve_linear_system(a, b) ==
    IF Len(a) = 1
    THEN IF a[1][1] = 0 THEN [ok |-> FALSE]
         ELSE [ok |-> TRUE, num |-> << b[1] * Sign(a[1][1]) >>, den |-> Abs(a[1][1])]
    ELSE LET det == a[1][1] * a[2][2] - a[1][2] * a[2][1]
         IN  IF (a[1][1] = 0 /\ a[2][1] = 0) \/ det = 0 THEN [ok |-> FALSE]
             ELSE [ok |-> TRUE,
                   num |-> << (b[1] * a[2][2] - a[1][2] * b[2]) * Sign(det),
                              (a[1][1] * b[2] - a[2][1] * b[1]) * Sign(det) >>,
                   den |-> Abs(det)]

\* ----------------------------------------------------------------- tangent
Neg(v) == [i \in 1..Len(v) |-> -v[i]]

RECURSIVE DotUpTo(_, _, _)
DotUpTo(u, v, i) == IF i = 0 THEN 0 ELSE u[i] * v[i] + DotUpTo(u, v, i - 1)

Dot(u, v) == DotUpTo(u, v, Len(u))

\* let eps = 1e-8: the finite-difference step, one grid unit here
FdEps == 1

\* (&f1 - &f0) / eps
DiffQuotient(f1, f0) == [i \in 1..Len(f0) |-> FDiv(FSub(f1[i], f0[i]), FdEps)]

df_dpar(sys, xs, p) == DiffQuotient(rhs(sys, xs, FAdd(p, FdEps)), rhs(sys, xs, p))

\* the direction D of the unit tangent D / |D|, D[n + 1] its parameter part
\* tangent = (dx, 1) when the solve succeeded, (0, 1) otherwise
TangentFromSolve(sol, n) ==
    IF sol.ok
    THEN [i \in 1..(n + 1) |-> IF i <= n THEN sol.num[i] ELSE sol.den]
    ELSE [i \in 1..(n + 1) |-> IF i <= n THEN 0 ELSE 1]

\* "Ensure correct direction"
OrientForward(tan, n, forward) ==
    IF (~forward /\ tan[n + 1] > 0) \/ (forward /\ tan[n + 1] < 0)
    THEN Neg(tan)
    ELSE tan

compute_initial_tangent(sys, xs, p, n, forward) ==
    OrientForward(
        TangentFromSolve(
            solve_linear_system(jacobian(sys, xs, p), Neg(df_dpar(sys, xs, p))), n),
        n, forward)

\* a variant of OrientAlong that keeps the tangent whatever the dot product
OrientAlongNever(new_tangent, prev_tangent) == new_tangent

\* "Choose orientation consistent with previous tangent"
OrientAlong(new_tangent, prev_tangent) ==
    IF Dot(new_tangent, prev_tangent) < 0 THEN Neg(new_tangent) ELSE new_tangent

compute_tangent(sys, xs, p, prev_tangent, n) ==
    OrientAlong(compute_initial_tangent(sys, xs, p, n, TRUE), prev_tangent)

\* ---------------------------------------------------------- Newton solvers
StateGrid(n) == [1..n -> (-XMax)..XMax]

ParGrid == {v \in (-ParMax)..ParMax : Representable(v)}

\* f.iter().map(|&v| v * v).sum::<f64>()
SumSq(f) == Dot(f, f)

\* a variant of ResidualSmall that also accepts a norm equal to the tolerance
ResidualSmallOrEqual(f, tol) == FSqrt(SumSq(f)) <= tol

\* f_norm < tol, with f_norm = sqrt(SumSq(f))
ResidualSmall(f, tol) == FSqrt(SumSq(f)) < tol

\* a < c * sqrt(nn), for nn > 0
LtScaled(a, c, nn) ==
    IF c > 0 THEN a <= 0 \/ a * a < c * c * nn
    ELSE IF c = 0 THEN a < 0
    ELSE a < 0 /\ a * a > c * c * nn

\* g.abs() < tol for g = tangent . (x - x0, par - par0) - ds, tangent = D / |D|
GSmall(a, nn, h, tol) == LtScaled(a, h + tol, nn) /\ LtScaled(-a, tol - h, nn)

ConstraintSmall(D, delta, h, tol) == GSmall(Dot(D, delta), Dot(D, D), h, tol)

Tolerances == {1, 2}

Grid(n) == {<< s, p >> : s \in StateGrid(n), p \in ParGrid}

\* the grid points (x, par) that pass the test f_norm < tol
ZerosOf(sys, tol) == {c \in Grid(dim(sys)) : ResidualSmall(rhs(sys, c[1], c[2]), tol)}

\* ZerosOf, tabulated once
ZeroSet ==
    (<< "FoldNormalForm", 1 >> :> ZerosOf("FoldNormalForm", 1))
    @@ (<< "FoldNormalForm", 2 >> :> ZerosOf("FoldNormalForm", 2))
    @@ (<< "HopfNormalForm", 1 >> :> ZerosOf("HopfNormalForm", 1))
    @@ (<< "HopfNormalForm", 2 >> :> ZerosOf("HopfNormalForm", 2))
    @@ (<< "PitchforkNormalForm", 1 >> :> ZerosOf("PitchforkNormalForm", 1))
    @@ (<< "PitchforkNormalForm", 2 >> :> ZerosOf("PitchforkNormalForm", 2))

Outcome(kind, xs, p, iters, done) ==
    [kind |-> kind, x |-> xs, par |-> p, iters |-> iters, performed |-> done]

\* The outcomes of newton_solve(rhs(., p), jacobian(., p), x0, tol, max_iter).
\* The first iteration is computed; later iterates are not tracked: the call
\* then ends with any grid point that meets the acceptance test, after 2 to
\* max_iter iterations, or with an error.  done counts the iterations of
\* the loop that were started.
newton_solve(sys, x0, p, tol, max_iter) ==
    IF max_iter = 0
    THEN {Outcome("ConvergenceFailed", x0, p, 0, 0)}
    ELSE IF ResidualSmall(rhs(sys, x0, p), tol)
    THEN {Outcome("Ok", x0, p, 1, 1)}
    ELSE IF ~solve_linear_system(jacobian(sys, x0, p), rhs(sys, x0, p)).ok
    THEN {Outcome("SingularJacobian", x0, p, 0, 1)}
    ELSE {Outcome("Ok", xn, p, k, k) :
              xn \in {c \in StateGrid(dim(sys)) : ResidualSmall(rhs(sys, c, p), tol)},
              k \in 2..max_iter}
         \cup {Outcome("SingularJacobian", x0, p, 0, j) : j \in 2..max_iter}
         \cup {Outcome("ConvergenceFailed", x0, p, max_iter, max_iter)}

\* the predictor x + ds * tangent is a grid point when the tangent is +-e_par
PurelyParametric(D, n) == \A i \in 1..n : D[i] = 0

Delta(xn, pn, x0, par0) ==
    [i \in 1..(Len(x0) + 1) |-> IF i <= Len(x0) THEN xn[i] - x0[i] ELSE pn - par0]

ArcConverged(sys, xn, pn, x0, par0, D, h, tol) ==
    /\ ResidualSmall(rhs(sys, xn, pn), tol)
    /\ ConstraintSmall(D, Delta(xn, pn, x0, par0), h, tol)

\* The outcomes of newton_arclength started at the predictor of (x0, par0).
\* let par_pred = par + h * tangent[n], for a purely parametric tangent
ParPred(par0, D, h) == FAdd(par0, FMul(h, Sign(D[Len(D)])))

ArcRoots(sys, x0, par0, D, h, tol) ==
    {c \in ZeroSet[sys, tol] : ConstraintSmall(D, Delta(c[1], c[2], x0, par0), h, tol)}

newton_arclength(sys, x0, par0, D, h, tol, max_iter) ==
    IF max_iter = 0
    THEN {Outcome("ConvergenceFailed", x0, par0, 0, 0)}
    ELSE IF PurelyParametric(D, Len(x0))
            /\ ArcConverged(sys, x0, ParPred(par0, D, h), x0, par0, D, h, tol)
    THEN {Outcome("Ok", x0, ParPred(par0, D, h), 1, 1)}
    ELSE {Outcome("Ok", c[1], c[2], k, k) :
              c \in ArcRoots(sys, x0, par0, D, h, tol), k \in 2..max_iter}
         \cup {Outcome("SingularJacobian", x0, par0, 0, j) : j \in 1..max_iter}
         \cup {Outcome("ConvergenceFailed", x0, par0, max_iter, max_iter)}

\* ------------------------------------------------------------------- state
VARIABLES
    entry,          \* the entry point called
    system,         \* its OdeSystem
    params,         \* its ContinuationParams
    bif_point,      \* branch_switch: its BifurcationPoint
    perturbation,   \* branch_switch: its perturbation
    initial_state,  \* the continuation driver's initial_state
    dparams,        \* the continuation driver's params
    pc,             \* "call", "arclength_call", "natural_loop", "arclength_loop", "done"
    branch,         \* the driver's ContinuationBranch
    x,              \* natural: state; arclength: x
    par,
    ds,
    tangent,
    arclength,
    step,
    ret,            \* what the entry point returned
    performed,      \* iterations performed by all Newton calls of the run
    corrector,      \* the last newton_arclength call: its number, arguments, result
    args,           \* the arguments of a numerical routine called on its own
    frame,          \* its local variables
    result          \* what it returned

vars == << entry, system, params, bif_point, perturbation, initial_state, dparams,
           pc, branch, x, par, ds, tangent, arclength, step, ret, performed,
           corrector, args, frame, result >>

inputs == << entry, system, params, bif_point, perturbation >>

\* the variables of a numerical routine called on its own
unit == << args, frame, result >>

\* the variables of the continuation drivers, pc apart
driver == << initial_state, dparams, branch, x, par, ds, tangent, arclength, step,
             ret, performed, corrector >>

\* ComputationStats::default()
DefaultStats ==
    [total_steps |-> 0, newton_iterations |-> 0, jacobian_evaluations |-> 0,
     step_size_reductions |-> 0, bifurcations_detected |-> 0, branch_switches |-> 0]

\* ContinuationBranch::new(name)
NewBranch(name) ==
    [name |-> name, points |-> << >>, bifurcations |-> << >>, stats |-> DefaultStats]

\* a variant of SolutionPoint that stores the arclength with its sign reversed
SolutionPointReversed(parameter, state, stable, eigenvalues, bifurcation, arclen, residual_norm) ==
    [parameter |-> parameter, state |-> state, stable |-> stable,
     eigenvalues |-> eigenvalues, bifurcation |-> bifurcation,
     arclength |-> 0 - arclen, residual_norm |-> residual_norm]

SolutionPoint(parameter, state, stable, eigenvalues, bifurcation, arclen, residual_norm) ==
    [parameter |-> parameter, state |-> state, stable |-> stable,
     eigenvalues |-> eigenvalues, bifurcation |-> bifurcation,
     arclength |-> arclen, residual_norm |-> residual_norm]

\* a variant of BifurcationPoint that never stores the tangent
BifurcationPointBare(bif_type, parameter, state, critical_eigenvalues, tan) ==
    [bif_type |-> bif_type, parameter |-> parameter, state |-> state,
     critical_eigenvalues |-> critical_eigenvalues, tangent |-> << >>]

BifurcationPoint(bif_type, parameter, state, critical_eigenvalues, tan) ==
    [bif_type |-> bif_type, parameter |-> parameter, state |-> state,
     critical_eigenvalues |-> critical_eigenvalues, tangent |-> tan]

\* Option<Array1<f64>>::None
NoTangent == << >>

NoBifPoint == BifurcationPoint("None", 0, << >>, << >>, NoTangent)

NoCall == [count |-> 0, x0 |-> << >>, par0 |-> 0, tangent |-> << >>, ds |-> 0,
           result |-> "None", iters |-> 0]

NotReturned == [kind |-> "None", err |-> "", value |-> 0, branch |-> NewBranch("")]
RetOk(b) == [kind |-> "Ok", err |-> "", value |-> 0, branch |-> b]
RetErr(e, v) == [kind |-> "Err", err |-> e, value |-> v, branch |-> NewBranch("")]

\* the value carried by the AutoError a Newton call failed with
ErrValue(o) == IF o.kind = "ConvergenceFailed" THEN o.iters ELSE 0

\* --------------------------------------------------------------------- Init
InitialStates(sys) ==
    CASE sys = "FoldNormalForm" -> { << 1 >>, << 0 >> }
      [] sys = "HopfNormalForm" -> { << 0, 0 >> }
      [] sys = "PitchforkNormalForm" -> { << 0 >>, << 1 >> }

ParamSet(e) ==
    [par_start : IF e = "branch_switch" THEN {1} ELSE {-4, 1},
     par_end : IF e = "natural_continuation" THEN {-4, 4, 21} ELSE {-4, 4},
     ds : CASE e = "natural_continuation" -> {3, 8}
            [] e = "arclength_continuation" -> {4, 8}
            [] e = "branch_switch" -> {4},
     ds_min : {2},
     ds_max : {6},
     max_steps : IF e = "branch_switch" THEN {0, MaxSteps} ELSE {0, 1, MaxSteps},
     newton_tol : Tolerances,
     newton_max_iter : {0, MaxNewtonIter},
     detect_bifurcations : IF e = "branch_switch" THEN {TRUE} ELSE BOOLEAN]
    \cup
    \* the fields are not validated: a positive ds with a negative cap ds_max
    (IF e = "arclength_continuation"
     THEN [par_start : {1}, par_end : {-4, 4}, ds : {4}, ds_min : {2}, ds_max : {-6},
           max_steps : {MaxSteps}, newton_tol : {1},
           newton_max_iter : {MaxNewtonIter}, detect_bifurcations : {FALSE}]
     ELSE {})

BifPoints(sys) ==
    {BifurcationPoint("SaddleNode", 0, s, << >>, t) :
        s \in {[i \in 1..dim(sys) |-> 0]},
        t \in {NoTangent, [i \in 1..(dim(sys) + 1) |-> IF i = dim(sys) + 1 THEN 1 ELSE 0],
               [i \in 1..(dim(sys) + 1) |-> IF i = 1 THEN -1 ELSE 0]}}

NoArgs == [none |-> TRUE]
NoFrame == [none |-> TRUE]
NoResult == [kind |-> "None"]

\* the locals of the drivers before the call
DriverLocalsInit ==
    /\ dparams = params
    /\ pc = "call"
    /\ branch = NewBranch("")
    /\ x = << >>
    /\ par = 0
    /\ ds = 0
    /\ tangent = << >>
    /\ arclength = 0
    /\ step = 0
    /\ ret = NotReturned
    /\ performed = 0
    /\ corrector = NoCall

\* a call of one of the continuation entry points
DriverInit ==
    /\ entry \in {"natural_continuation", "arclength_continuation", "branch_switch"}
    /\ system \in Systems
    /\ params \in ParamSet(entry)
    /\ IF entry = "branch_switch"
       THEN /\ bif_point \in BifPoints(system)
            /\ perturbation \in {1}
            /\ initial_state = << >>
       ELSE /\ bif_point = NoBifPoint
            /\ perturbation = 0
            /\ initial_state \in InitialStates(system)
    /\ DriverLocalsInit
    /\ args = NoArgs
    /\ frame = NoFrame
    /\ result = NoResult

\* ------------------------------------------------------ natural_continuation
\* a variant of Direction that always steps upwards
DirectionUp(p) == 1

Direction(p) == IF p.par_end > p.par_start THEN 1 ELSE -1

Last(seq) == seq[Len(seq)]

AddIters(stats, iters) ==
    [stats EXCEPT !.newton_iterations = @ + iters,
                  !.jacobian_evaluations = @ + iters]

\* a variant of RecordBifurcation that leaves bifurcations_detected alone
RecordBifurcationUncounted(b, bif_type, parameter, state, eigenvalues, tan) ==
    IF bif_type = "None" THEN b
    ELSE [b EXCEPT
            !.bifurcations = Append(@, BifurcationPoint(bif_type, parameter, state,
                                  find_critical_eigenvalues(eigenvalues), tan))]

\* branch.bifurcations.push(..); branch.stats.bifurcations_detected += 1
RecordBifurcation(b, bif_type, parameter, state, eigenvalues, tan) ==
    IF bif_type = "None" THEN b
    ELSE [b EXCEPT
            !.bifurcations = Append(@, BifurcationPoint(bif_type, parameter, state,
                                  find_critical_eigenvalues(eigenvalues), tan)),
            !.stats.bifurcations_detected = @ + 1]

\* the residual norm stored with a point
ResidualNorm(sys, state, parameter) == FSqrt(SumSq(rhs(sys, state, parameter)))

PastEnd(p, parameter) ==
    \/ (Direction(p) > 0 /\ parameter > p.par_end)
    \/ (Direction(p) < 0 /\ parameter < p.par_end)

natural_start ==
    /\ pc = "call"
    /\ entry = "natural_continuation"
    /\ branch' = NewBranch("natural")
    /\ x' = initial_state
    /\ par' = dparams.par_start
    /\ arclength' = 0
    /\ step' = 0
    /\ pc' = "natural_loop"
    /\ UNCHANGED << inputs, unit, initial_state, dparams, ds, tangent, ret, performed,
                    corrector >>

\* branch.points.push(SolutionPoint { .. }), after the bifurcation (if any)
PushPoint(b, bifurcation, parameter, state, eigenvalues, tan, arclen, residual_norm) ==
    [RecordBifurcation(b, bifurcation, parameter, state, eigenvalues, tan)
        EXCEPT !.points = Append(@,
            SolutionPoint(parameter, state, IsStable(eigenvalues), eigenvalues,
                          bifurcation, arclen, residual_norm))]

\* "Check for bifurcations" and "Store solution point" of natural_continuation
\* a variant of NaturalDetectPush that ignores params.detect_bifurcations
NaturalDetectPushAlways(b, p, stp, parameter, arclen, new_state, eigenvalues, residual_norm) ==
    PushPoint(b,
              IF stp > 0
              THEN detect_bifurcation(Last(b.points).eigenvalues, eigenvalues)
              ELSE "None",
              parameter, new_state, eigenvalues, NoTangent, arclen, residual_norm)

NaturalDetectPush(b, p, stp, parameter, arclen, new_state, eigenvalues, residual_norm) ==
    PushPoint(b,
              IF p.detect_bifurcations /\ stp > 0
              THEN detect_bifurcation(Last(b.points).eigenvalues, eigenvalues)
              ELSE "None",
              parameter, new_state, eigenvalues, NoTangent, arclen, residual_norm)

\* the branch after the body of one loop iteration whose Newton call returned
\* (new_state, newton_iters), up to the push of the SolutionPoint
NaturalRecorded(b, sys, p, stp, parameter, arclen, new_state, newton_iters) ==
    NaturalDetectPush([b EXCEPT !.stats = AddIters(@, newton_iters)], p, stp,
                      parameter, arclen, new_state,
                      compute_eigenvalues(jacobian(sys, new_state, parameter)),
                      ResidualNorm(sys, new_state, parameter))

natural_step ==
    /\ pc = "natural_loop"
    /\ step < dparams.max_steps
    /\ \E o \in newton_solve(system, x, par, dparams.newton_tol, dparams.newton_max_iter) :
         /\ o.kind = "Ok"
         /\ performed' = performed + o.performed
         /\ \E recorded \in {NaturalRecorded(branch, system, dparams, step, par,
                                              arclength, o.x, o.iters)},
               new_par \in {FAdd(par, FMul(Direction(dparams), dparams.ds))} :
                /\ x' = o.x
                /\ arclength' = FAdd(arclength, dparams.ds)
                /\ par' = new_par
                /\ IF PastEnd(dparams, new_par)
                   THEN /\ branch' = recorded
                        /\ step' = step
                        /\ ret' = RetOk(recorded)
                        /\ pc' = "done"
                   ELSE /\ branch' = [recorded EXCEPT !.stats.total_steps = step + 1]
                        /\ step' = step + 1
                        /\ ret' = ret
                        /\ pc' = pc
    /\ UNCHANGED << inputs, unit, initial_state, dparams, ds, tangent, corrector >>

\* a variant of natural_newton_error that returns the points accumulated so far
natural_newton_error_partial ==
    /\ pc = "natural_loop"
    /\ step < dparams.max_steps
    /\ \E o \in newton_solve(system, x, par, dparams.newton_tol, dparams.newton_max_iter) :
         /\ o.kind # "Ok"
         /\ performed' = performed + o.performed
    /\ ret' = RetOk(branch)
    /\ pc' = "done"
    /\ UNCHANGED << inputs, unit, initial_state, dparams, branch, x, par, ds, tangent,
                    arclength, step, corrector >>

\* newton_solve(..)? : the error leaves natural_continuation
natural_newton_error ==
    /\ pc = "natural_loop"
    /\ step < dparams.max_steps
    /\ \E o \in newton_solve(system, x, par, dparams.newton_tol, dparams.newton_max_iter) :
         /\ o.kind # "Ok"
         /\ performed' = performed + o.performed
         /\ ret' = RetErr(o.kind, ErrValue(o))
    /\ pc' = "done"
    /\ UNCHANGED << inputs, unit, initial_state, dparams, branch, x, par, ds, tangent,
                    arclength, step, corrector >>

\* a variant of natural_return that reports the exhausted budget as an error
natural_return_MaxStepsReached ==
    /\ pc = "natural_loop"
    /\ step >= dparams.max_steps
    /\ ret' = RetErr("MaxStepsReached", dparams.max_steps)
    /\ pc' = "done"
    /\ UNCHANGED << inputs, unit, initial_state, dparams, branch, x, par, ds, tangent,
                    arclength, step, performed, corrector >>

\* the for loop ends: Ok(branch)
natural_return ==
    /\ pc = "natural_loop"
    /\ step >= dparams.max_steps
    /\ ret' = RetOk(branch)
    /\ pc' = "done"
    /\ UNCHANGED << inputs, unit, initial_state, dparams, branch, x, par, ds, tangent,
                    arclength, step, performed, corrector >>

\* ---------------------------------------------------- arclength_continuation
\* branch_switch's tail applied to what its arclength_continuation call returned
\* a variant of branch_switch_return that leaves stats.branch_switches alone
branch_switch_return_uncounted(r) ==
    IF r.kind = "Ok"
    THEN RetOk([name |-> "switched",
                points |-> r.branch.points,
                bifurcations |-> r.branch.bifurcations,
                stats |-> r.branch.stats])
    ELSE r

branch_switch_return(r) ==
    IF r.kind = "Ok"
    THEN RetOk([name |-> "switched",
                points |-> r.branch.points,
                bifurcations |-> r.branch.bifurcations,
                stats |-> [r.branch.stats EXCEPT !.branch_switches = 1]])
    ELSE r

\* what the entry point returns when the continuation driver returns r
Deliver(r) == IF entry = "branch_switch" THEN branch_switch_return(r) ELSE r

arclength_start ==
    /\ \/ (pc = "call" /\ entry = "arclength_continuation")
       \/ pc = "arclength_call"
    /\ \E n \in {dim(system)},
          eigenvalues \in {compute_eigenvalues(
                               jacobian(system, initial_state, dparams.par_start))} :
           /\ x' = initial_state
           /\ par' = dparams.par_start
           /\ ds' = dparams.ds
           /\ tangent' = compute_initial_tangent(system, initial_state, dparams.par_start,
                                                 n, dparams.par_end > dparams.par_start)
           /\ arclength' = 0
           /\ branch' = [NewBranch("arclength") EXCEPT !.points = Append(@,
                  SolutionPoint(dparams.par_start, initial_state, IsStable(eigenvalues),
                                eigenvalues, "None", 0, 0))]
    /\ step' = 0
    /\ pc' = "arclength_loop"
    /\ UNCHANGED << inputs, unit, initial_state, dparams, ret, performed, corrector >>

\* "Detect bifurcations" and "Store point" of arclength_continuation
ArclengthDetectPush(b, p, new_x, new_par, new_tangent, arclen, eigenvalues, residual_norm) ==
    PushPoint(b,
              IF p.detect_bifurcations /\ b.points # << >>
              THEN detect_bifurcation(Last(b.points).eigenvalues, eigenvalues)
              ELSE "None",
              new_par, new_x, eigenvalues, new_tangent, arclen, residual_norm)

\* the branch after the Ok arm, up to the push of the SolutionPoint
ArclengthRecorded(b, sys, p, n, new_x, new_par, iters, new_tangent, arclen) ==
    ArclengthDetectPush([b EXCEPT !.stats = AddIters(@, iters)], p, new_x, new_par,
                        new_tangent, arclen,
                        compute_eigenvalues(jacobian(sys, new_x, new_par)),
                        ResidualNorm(sys, new_x, new_par))

\* a variant of AdaptStep without the cap at ds_max
AdaptStepUncapped(d, iters, ds_max) == IF iters < 3 THEN FMul15(d) ELSE d

\* if iters < 3 { ds = (ds * 1.5).min(params.ds_max) }
AdaptStep(d, iters, ds_max) == IF iters < 3 THEN FMin(FMul15(d), ds_max) ELSE d

\* a variant of Crossed that tests the increasing direction only
CrossedUp(p, parameter) == p.par_end > p.par_start /\ parameter > p.par_end

\* the termination check after an accepted step
Crossed(p, parameter) ==
    \/ (p.par_end > p.par_start /\ parameter > p.par_end)
    \/ (p.par_end < p.par_start /\ parameter < p.par_end)

\* a variant of TooSmall that also gives up at ds = ds_min
TooSmallOrEqual(d, p) == d <= p.ds_min

\* if ds < params.ds_min
TooSmall(d, p) == d < p.ds_min

CorrectorCall(o) == [count |-> corrector.count + 1, x0 |-> x, par0 |-> par,
                     tangent |-> tangent, ds |-> ds, result |-> o.kind,
                     iters |-> o.iters]

\* one loop iteration whose corrector succeeded
arclength_accept ==
    /\ pc = "arclength_loop"
    /\ step < dparams.max_steps
    /\ \E o \in newton_arclength(system, x, par, tangent, ds, dparams.newton_tol,
                                 dparams.newton_max_iter) :
         /\ o.kind = "Ok"
         /\ corrector' = CorrectorCall(o)
         /\ performed' = performed + o.performed
         /\ \E new_arclength \in {FAdd(arclength, ds)},
               new_tangent \in {compute_tangent(system, o.x, o.par, tangent, dim(system))} :
            \E recorded \in {ArclengthRecorded(branch, system, dparams, dim(system), o.x,
                                 o.par, o.iters, new_tangent, new_arclength)} :
                /\ arclength' = new_arclength
                /\ x' = o.x
                /\ par' = o.par
                /\ tangent' = new_tangent
                /\ ds' = AdaptStep(ds, o.iters, dparams.ds_max)
                /\ IF Crossed(dparams, o.par)
                   THEN /\ branch' = recorded
                        /\ step' = step
                        /\ ret' = Deliver(RetOk(recorded))
                        /\ pc' = "done"
                   ELSE /\ branch' = [recorded EXCEPT !.stats.total_steps = step + 1]
                        /\ step' = step + 1
                        /\ ret' = ret
                        /\ pc' = pc
    /\ UNCHANGED << inputs, unit, initial_state, dparams >>

\* a variant of arclength_reject whose failed attempt does not use up a step
arclength_reject_unbudgeted ==
    /\ pc = "arclength_loop"
    /\ step < dparams.max_steps
    /\ \E o \in newton_arclength(system, x, par, tangent, ds, dparams.newton_tol,
                                 dparams.newton_max_iter) :
         /\ o.kind # "Ok"
         /\ corrector' = CorrectorCall(o)
         /\ performed' = performed + o.performed
    /\ \E halved \in {FHalf(ds)},
          reduced \in {[branch EXCEPT !.stats.step_size_reductions = @ + 1]} :
           /\ ds' = halved
           /\ IF TooSmall(halved, dparams)
              THEN /\ branch' = reduced
                   /\ step' = step
                   /\ ret' = Deliver(RetErr("StepTooSmall", halved))
                   /\ pc' = "done"
              ELSE /\ branch' = [reduced EXCEPT !.stats.total_steps = step + 1]
                   /\ step' = step
                   /\ ret' = ret
                   /\ pc' = pc
    /\ UNCHANGED << inputs, unit, initial_state, dparams, x, par, tangent, arclength >>

\* one loop iteration whose corrector failed: Err(_)
arclength_reject ==
    /\ pc = "arclength_loop"
    /\ step < dparams.max_steps
    /\ \E o \in newton_arclength(system, x, par, tangent, ds, dparams.newton_tol,
                                 dparams.newton_max_iter) :
         /\ o.kind # "Ok"
         /\ corrector' = CorrectorCall(o)
         /\ performed' = performed + o.performed
    /\ \E halved \in {FHalf(ds)},
          reduced \in {[branch EXCEPT !.stats.step_size_reductions = @ + 1]} :
           /\ ds' = halved
           /\ IF TooSmall(halved, dparams)
              THEN /\ branch' = reduced
                   /\ step' = step
                   /\ ret' = Deliver(RetErr("StepTooSmall", halved))
                   /\ pc' = "done"
              ELSE /\ branch' = [reduced EXCEPT !.stats.total_steps = step + 1]
                   /\ step' = step + 1
                   /\ ret' = ret
                   /\ pc' = pc
    /\ UNCHANGED << inputs, unit, initial_state, dparams, x, par, tangent, arclength >>

\* the for loop ends: Ok(branch)
arclength_return ==
    /\ pc = "arclength_loop"
    /\ step >= dparams.max_steps
    /\ ret' = Deliver(RetOk(branch))
    /\ pc' = "done"
    /\ UNCHANGED << inputs, unit, initial_state, dparams, branch, x, par, ds, tangent,
                    arclength, step, performed, corrector >>

\* ------------------------------------------------------------- branch_switch
\* |D| for a direction of integer length
Norm(D) == ISqrt(Dot(D, D))

\* new_state[i] += perturbation * tangent[i], tangent = D / |D|
Perturbed(state, pert, D) ==
    [i \in 1..Len(state) |-> FAdd(state[i], Round(pert * D[i], Norm(D)))]

\* a variant of branch_switch_start that continues from the bifurcation point
\* itself when it has no tangent
branch_switch_start_untested ==
    /\ pc = "call"
    /\ entry = "branch_switch"
    /\ IF bif_point.tangent = NoTangent
       THEN /\ initial_state' = bif_point.state
            /\ dparams' = params
       ELSE /\ initial_state' = Perturbed(bif_point.state, perturbation, bif_point.tangent)
            /\ dparams' = [params EXCEPT !.par_start =
                    FAdd(bif_point.parameter,
                         Round(perturbation * bif_point.tangent[Len(bif_point.state) + 1],
                               Norm(bif_point.tangent)))]
    /\ pc' = "arclength_call"
    /\ UNCHANGED << inputs, unit, branch, x, par, ds, tangent, arclength, step, performed,
                    corrector, ret >>

branch_switch_start ==
    /\ pc = "call"
    /\ entry = "branch_switch"
    /\ IF bif_point.tangent = NoTangent
       THEN /\ ret' = RetErr("InvalidParameter", 0)
            /\ pc' = "done"
            /\ UNCHANGED << initial_state, dparams >>
       ELSE /\ initial_state' = Perturbed(bif_point.state, perturbation, bif_point.tangent)
            /\ dparams' = [params EXCEPT !.par_start =
                    FAdd(bif_point.parameter,
                         Round(perturbation * bif_point.tangent[Len(bif_point.state) + 1],
                               Norm(bif_point.tangent)))]
                /\ ret' = ret
                /\ pc' = "arclength_call"
    /\ UNCHANGED << inputs, unit, branch, x, par, ds, tangent, arclength, step, performed,
                    corrector >>

\* ------------------------------------------- routines called on their own
\* the driver variables of a run that calls one numerical routine directly
DriverIdle ==
    /\ system = "FoldNormalForm"
    /\ params = [par_start |-> 0, par_end |-> 1, ds |-> 1, ds_min |-> 1, ds_max |-> 1,
                 max_steps |-> 0, newton_tol |-> 1, newton_max_iter |-> 0,
                 detect_bifurcations |-> FALSE]
    /\ bif_point = NoBifPoint
    /\ perturbation = 0
    /\ initial_state = << >>
    /\ DriverLocalsInit

\* the routine ret_kind returned the value v
Returned(v) == [kind |-> "Returned", value |-> v]

\* ------------------------------------------------------- compute_eigenvalues
\* |h[[i + 1, i]]| < 1e-10: zero on the grid
SubDiagSmall(v) == v = 0

\* the matrices the QR loop is taken to leave in h: any pattern of negligible
\* and non-negligible sub-diagonal entries, the diagonal 1, .., n, and a
\* super-diagonal that makes every 2x2 block's discriminant negative
QuasiTriangular(n) ==
    { [i \in 1..n |-> [j \in 1..n |->
          IF i = j THEN i
          ELSE IF j = i + 1 THEN -1
          ELSE IF j = i - 1 THEN sub[j]
          ELSE 0]] : sub \in [1..(n - 1) -> {0, 1}] }

\* the arguments of compute_eigenvalues: square matrices of 0..MaxDim rows
EigenInputs ==
    {<< >>} \cup {<< << v >> >> : v \in {-2, 0, 3}}
            \cup {jacobian("HopfNormalForm", s, m) : s \in StateGrid(2), m \in {-1, 0, 2}}
            \cup {<< << p, q >>, << r, w >> >> :
                      p \in {-3, 1, 2}, q \in {-2, 0, 1}, r \in {0, 1}, w \in {-3, 1, 2}}
            \cup UNION {QuasiTriangular(n) : n \in 3..MaxDim}

\* the 2x2 block of h at rows and columns i, i + 1 (0-based i)
Block(h, i) == << << h[i + 1][i + 1], h[i + 1][i + 2] >>,
                  << h[i + 2][i + 1], h[i + 2][i + 2] >> >>

\* how many rows the scan consumes at i: 1 for a real eigenvalue, 2 for a block
BlockSize(h, i, n) ==
    IF i = n - 1 \/ SubDiagSmall(h[i + 2][i + 1]) THEN 1 ELSE 2

\* a variant of BlockEigenvalues that keeps one eigenvalue of a 2x2 block
BlockEigenvaluesFirst(h, i, n) ==
    IF BlockSize(h, i, n) = 1
    THEN << << h[i + 1][i + 1], 0 >> >>
    ELSE << eigenvalues_2x2(Block(h, i))[1] >>

\* what the scan appends at i
BlockEigenvalues(h, i, n) ==
    IF BlockSize(h, i, n) = 1
    THEN << << h[i + 1][i + 1], 0 >> >>
    ELSE eigenvalues_2x2(Block(h, i))

\* the indices i, .., i + k - 1
Indices(i, k) == [j \in 1..k |-> i + j - 1]

compute_eigenvalues_call ==
    /\ entry = "compute_eigenvalues"
    /\ args \in {[a |-> m, n |-> Len(m)] : m \in EigenInputs}
    /\ frame = NoFrame
    /\ result = NoResult
    /\ DriverIdle

\* n <= 2: the direct methods
compute_eigenvalues_direct ==
    /\ entry = "compute_eigenvalues"
    /\ pc = "call"
    /\ args.n <= 2
    /\ result' = Returned(compute_eigenvalues(args.a))
    /\ pc' = "done"
    /\ UNCHANGED << inputs, driver, args, frame >>

\* n > 2: the QR loop of qr_eigenvalues, up to the start of the scan
qr_eigenvalues_iterate ==
    /\ entry = "compute_eigenvalues"
    /\ pc = "call"
    /\ args.n > 2
    /\ \E h \in QuasiTriangular(args.n) :
          frame' = [h |-> h, i |-> 0, eigenvalues |-> << >>, consumed |-> << >>]
    /\ pc' = "qr_scan"
    /\ UNCHANGED << inputs, driver, args, result >>

\* one turn of "while i < n"; consumed records the indices the turn used
qr_eigenvalues_scan ==
    /\ pc = "qr_scan"
    /\ frame.i < args.n
    /\ frame' = [frame EXCEPT
          !.eigenvalues = @ \o BlockEigenvalues(frame.h, frame.i, args.n),
          !.consumed = @ \o Indices(frame.i, BlockSize(frame.h, frame.i, args.n)),
          !.i = @ + BlockSize(frame.h, frame.i, args.n)]
    /\ UNCHANGED << inputs, driver, args, result, pc >>

qr_eigenvalues_return ==
    /\ pc = "qr_scan"
    /\ ~(frame.i < args.n)
    /\ result' = Returned(frame.eigenvalues)
    /\ pc' = "done"
    /\ UNCHANGED << inputs, driver, args, frame >>

\* -------------------------------------------------------- detect_bifurcation
\* eigenvalue lists of up to two (re, im) pairs, equal real parts included
EigenLists ==
    LET pairs == {<< re, im >> : re \in {-1, 0, 2}, im \in {0, 1}}
    IN  {<< >>} \cup {<< e >> : e \in pairs} \cup {<< e, f >> : e \in pairs, f \in pairs}

detect_bifurcation_call ==
    /\ entry = "detect_bifurcation"
    /\ args \in [prev_eigs : EigenLists, curr_eigs : EigenLists]
    /\ frame = NoFrame
    /\ result = NoResult
    /\ DriverIdle

detect_bifurcation_return ==
    /\ entry = "detect_bifurcation"
    /\ pc = "call"
    /\ result' = Returned(detect_bifurcation(args.prev_eigs, args.curr_eigs))
    /\ pc' = "done"
    /\ UNCHANGED << inputs, driver, args, frame >>

\* -------------------------------------------------------------- newton_solve
\* max_val < 1e-15: zero on the grid
PivotSmall(max_val) == max_val = 0

\* a variant of max_row that takes the later row on ties
max_row_last(a) == IF Abs(a[2][1]) >= Abs(a[1][1]) THEN 2 ELSE 1

\* the row the pivot search of column 0 selects in a 2 x 2 system (1-based):
\* the later row only if its entry is strictly larger in magnitude
max_row(a) == IF Abs(a[2][1]) > Abs(a[1][1]) THEN 2 ELSE 1

\* row i of the augmented matrix minus factor times the pivot row
Eliminate(row, factor, pivot_row) ==
    [j \in 1..Len(row) |-> FSub(row[j], FMul(factor, pivot_row[j]))]

\* back substitution on the eliminated 2 x 2 system with rows r1, r2
BackSubstitute(r1, r2) ==
    << FDiv(FSub(r1[3], FMul(r1[2], FDiv(r2[3], r2[2]))), r1[1]),
       FDiv(r2[3], r2[2]) >>

\* the second row after the elimination of column 0 with pivot row r1
SecondRow(r1, other) == Eliminate(other, FDiv(other[1], r1[1]), r1)

\* solve_linear_system in f64, for n <= 2, on the rows top (the pivot row of
\* column 0) and other of the augmented matrix
GaussSolve2(top, other) ==
    IF PivotSmall(Abs(top[1])) \/ PivotSmall(Abs(SecondRow(top, other)[2]))
    THEN [ok |-> FALSE]
    ELSE [ok |-> TRUE, x |-> BackSubstitute(top, SecondRow(top, other))]

\* solve_linear_system(a, b) as the Newton iteration calls it: Gaussian
\* elimination with partial pivoting, every operation rounded
solve_linear_system_f64(a, b) ==
    IF Len(b) = 1
    THEN IF PivotSmall(Abs(a[1][1])) THEN [ok |-> FALSE]
         ELSE [ok |-> TRUE, x |-> << FDiv(b[1], a[1][1]) >>]
    ELSE GaussSolve2(<< a[max_row(a)][1], a[max_row(a)][2], b[max_row(a)] >>,
                     << a[3 - max_row(a)][1], a[3 - max_row(a)][2], b[3 - max_row(a)] >>)

\* a variant of NewtonUpdate that adds the step: x = x + dx
NewtonUpdatePlus(xs, dx) == [i \in 1..Len(xs) |-> FAdd(xs[i], dx[i])]

\* x = x - dx
NewtonUpdate(xs, dx) == [i \in 1..Len(xs) |-> FSub(xs[i], dx[i])]

\* the calls of newton_solve: f and jacobian are rhs and jacobian of one of the
\* systems at a fixed parameter
NewtonCalls ==
    [sys : {"FoldNormalForm", "PitchforkNormalForm"},
     x0 : {<< 0 >>, << 2 >>, << 8 >>},
     par : {-4, 0, 4}, tol : Tolerances, max_iter : 0..MaxNewtonIter]
    \cup
    [sys : {"HopfNormalForm"}, x0 : {<< 0, 0 >>, << 1, 0 >>, << 2, 1 >>},
     par : {-4, 0, 4}, tol : Tolerances, max_iter : 0..MaxNewtonIter]

\* iterates holds x and every value x had before; f_evals and jac_evals count
\* the calls of f and of jacobian
newton_solve_call ==
    /\ entry = "newton_solve"
    /\ args \in NewtonCalls
    /\ frame = [x |-> args.x0, iter |-> 0, iterates |-> << args.x0 >>,
                f_evals |-> 0, jac_evals |-> 0]
    /\ result = NoResult
    /\ DriverIdle

\* fx at the current x
NewtonResidual == rhs(args.sys, frame.x, args.par)

\* dx at the current x
NewtonStep == solve_linear_system_f64(jacobian(args.sys, frame.x, args.par), NewtonResidual)

\* the loop is at the head of an iteration
NewtonIterating ==
    /\ entry = "newton_solve"
    /\ pc \in {"call", "newton_loop"}
    /\ frame.iter < args.max_iter

\* if norm < tol { return Ok((x, iter + 1)) }
newton_solve_converged ==
    /\ NewtonIterating
    /\ ResidualSmall(NewtonResidual, args.tol)
    /\ frame' = [frame EXCEPT !.f_evals = @ + 1]
    /\ result' = Outcome("Ok", frame.x, args.par, frame.iter + 1, frame.iter + 1)
    /\ pc' = "done"
    /\ UNCHANGED << inputs, driver, args >>

\* x = x - dx
newton_solve_update ==
    /\ NewtonIterating
    /\ ~ResidualSmall(NewtonResidual, args.tol)
    /\ NewtonStep.ok
    /\ frame' = [frame EXCEPT
          !.x = NewtonUpdate(frame.x, NewtonStep.x),
          !.iterates = Append(@, NewtonUpdate(frame.x, NewtonStep.x)),
          !.iter = @ + 1, !.f_evals = @ + 1, !.jac_evals = @ + 1]
    /\ pc' = "newton_loop"
    /\ UNCHANGED << inputs, driver, args, result >>

\* let dx = solve_linear_system(&jac, &fx)?
newton_solve_singular ==
    /\ NewtonIterating
    /\ ~ResidualSmall(NewtonResidual, args.tol)
    /\ ~NewtonStep.ok
    /\ frame' = [frame EXCEPT !.f_evals = @ + 1, !.jac_evals = @ + 1]
    /\ result' = Outcome("SingularJacobian", frame.x, args.par, 0, frame.iter + 1)
    /\ pc' = "done"
    /\ UNCHANGED << inputs, driver, args >>

\* Err(AutoError::ConvergenceFailed(max_iter))
newton_solve_exhausted ==
    /\ entry = "newton_solve"
    /\ pc \in {"call", "newton_loop"}
    /\ ~(frame.iter < args.max_iter)
    /\ result' = Outcome("ConvergenceFailed", frame.x, args.par, args.max_iter, frame.iter)
    /\ pc' = "done"
    /\ UNCHANGED << inputs, driver, args, frame >>

\* ----------------------------------------------------------- stable_segments
\* the branches stable_segments is called on: up to MaxPoints points, of which
\* only the stable flag matters
FlaggedBranches ==
    UNION {[1..n -> [stable : BOOLEAN]] : n \in 0..MaxPoints}

\* a variant of Visit that closes a segment at the unstable point itself
VisitInclusive(fr, pt) ==
    IF pt.stable
    THEN [fr EXCEPT !.start = IF @ = << >> THEN << fr.i >> ELSE @, !.i = @ + 1]
    ELSE IF fr.start # << >>
         THEN [fr EXCEPT !.segments = Append(@, << fr.start[1], fr.i >>),
                         !.start = << >>, !.i = @ + 1]
         ELSE [fr EXCEPT !.i = @ + 1]

\* one turn of the loop over the points, at index fr.i with point pt; start
\* is << >> for None and << s >> for Some(s)
Visit(fr, pt) ==
    IF pt.stable
    THEN [fr EXCEPT !.start = IF @ = << >> THEN << fr.i >> ELSE @, !.i = @ + 1]
    ELSE IF fr.start # << >>
         THEN [fr EXCEPT !.segments = Append(@, << fr.start[1], fr.i - 1 >>),
                         !.start = << >>, !.i = @ + 1]
         ELSE [fr EXCEPT !.i = @ + 1]

stable_segments_call ==
    /\ entry = "stable_segments"
    /\ args \in [points : FlaggedBranches]
    /\ frame = [i |-> 0, start |-> << >>, segments |-> << >>]
    /\ result = NoResult
    /\ DriverIdle

\* for (i, pt) in self.points.iter().enumerate()
stable_segments_visit ==
    /\ entry = "stable_segments"
    /\ pc \in {"call", "segments_loop"}
    /\ frame.i < Len(args.points)
    /\ frame' = Visit(frame, args.points[frame.i + 1])
    /\ pc' = "segments_loop"
    /\ UNCHANGED << inputs, driver, args, result >>

\* the segment still open after the loop ends at the last point
stable_segments_return ==
    /\ entry = "stable_segments"
    /\ pc \in {"call", "segments_loop"}
    /\ ~(frame.i < Len(args.points))
    /\ result' = Returned(IF frame.start # << >>
                          THEN Append(frame.segments,
                                      << frame.start[1], Len(args.points) - 1 >>)
                          ELSE frame.segments)
    /\ pc' = "done"
    /\ UNCHANGED << inputs, driver, args, frame >>

\* -------------------------------------------------------- numerical_jacobian
\* x with eps added to (h = 1) or subtracted from (h = -1) component j
Shifted(xs, j, h) == [xs EXCEPT ![j] = FAdd(@, h * FdEps)]

\* a variant of numerical_jacobian that takes central differences
numerical_jacobian_central(sys, xs, p) ==
    [i \in 1..Len(xs) |-> [j \in 1..Len(xs) |->
        FDiv(FSub(rhs(sys, Shifted(xs, j, 1), p)[i], rhs(sys, Shifted(xs, j, -1), p)[i]),
             FMul(2, FdEps))]]

\* jac[[i, j]] = (f_plus[i] - f0[i]) / eps
numerical_jacobian(sys, xs, p) ==
    [i \in 1..Len(xs) |-> [j \in 1..Len(xs) |->
        FDiv(FSub(rhs(sys, Shifted(xs, j, 1), p)[i], rhs(sys, xs, p)[i]), FdEps)]]

\* the state Jacobian as every driver obtains it,
\* system.jacobian(x, par).unwrap_or_else(|| numerical_jacobian(system, x, par)),
\* for the three normal forms and for systems with the same rhs that keep the
\* trait's default jacobian (provided = FALSE); rhs_calls counts the calls of
\* system.rhs
state_jacobian_call ==
    /\ entry = "state_jacobian"
    /\ \E sys \in Systems :
          args \in [sys : {sys}, x : StateGrid(dim(sys)), par : {-1, 0, 2},
                    provided : BOOLEAN]
    /\ frame = [rhs_calls |-> 0]
    /\ result = NoResult
    /\ DriverIdle

\* Some(J): J is used
state_jacobian_some ==
    /\ entry = "state_jacobian"
    /\ pc = "call"
    /\ args.provided
    /\ result' = Returned(jacobian(args.sys, args.x, args.par))
    /\ pc' = "done"
    /\ UNCHANGED << inputs, driver, args, frame >>

\* None: numerical_jacobian evaluates rhs at x and at x + eps * e_j for every j
state_jacobian_none ==
    /\ entry = "state_jacobian"
    /\ pc = "call"
    /\ ~args.provided
    /\ result' = Returned(numerical_jacobian(args.sys, args.x, args.par))
    /\ frame' = [rhs_calls |-> 1 + Len(args.x)]
    /\ pc' = "done"
    /\ UNCHANGED << inputs, driver, args >>

\* ---------------------------------------------------------- qr_decomposition
\* the arguments of qr_decomposition: square matrices of 0..3 rows whose
\* columns are zero or a multiple of a unit vector, so that every norm and
\* every quotient of the Gram-Schmidt process is on the grid; full-rank,
\* rank-deficient and zero matrices are among them
QrInputs ==
    {<< >>} \cup UNION { {[i \in 1..n |-> [j \in 1..n |-> IF i = row[j] THEN c[j] ELSE 0]] :
                             row \in [1..n -> 0..n], c \in [1..n -> {-2, 3}]} : n \in 1..3 }

\* q.column(i).dot(&v), every product and every sum rounded
RECURSIVE FDotUpTo(_, _, _)
FDotUpTo(u, v, k) ==
    IF k = 0 THEN 0 ELSE FAdd(FDotUpTo(u, v, k - 1), FMul(u[k], v[k]))

\* the loop "for i in 0..j" on the columns q[i .. ] computed so far: v loses
\* its component along each of them, coeffs collects r[[i, j]]
RECURSIVE GramSchmidt(_, _, _, _)
GramSchmidt(q, v, i, coeffs) ==
    IF i > Len(q) THEN [v |-> v, r |-> coeffs]
    ELSE GramSchmidt(q,
                     [k \in 1..Len(v) |->
                        FSub(v[k], FMul(FDotUpTo(q[i], v, Len(v)), q[i][k]))],
                     i + 1,
                     Append(coeffs, FDotUpTo(q[i], v, Len(v))))

\* column j of q: v / r[[j, j]] if |r[[j, j]]| > 1e-15, else left at zero
QColumn(v, norm) ==
    [k \in 1..Len(v) |-> IF norm # 0 THEN FDiv(v[k], norm) ELSE 0]

\* q and r are kept as sequences of columns
qr_decomposition_call ==
    /\ entry = "qr_decomposition"
    /\ args \in {[a |-> m, n |-> Len(m)] : m \in QrInputs}
    /\ frame = [j |-> 0, q |-> << >>, r |-> << >>]
    /\ result = NoResult
    /\ DriverIdle

\* one turn of "for j in 0..n"
qr_decomposition_column ==
    /\ entry = "qr_decomposition"
    /\ pc \in {"call", "qr_loop"}
    /\ frame.j < args.n
    /\ LET gs == GramSchmidt(frame.q, [k \in 1..args.n |-> args.a[k][frame.j + 1]],
                             1, << >>)
           norm == FSqrt(SumSq(gs.v))
       IN  frame' = [j |-> frame.j + 1,
                     q |-> Append(frame.q, QColumn(gs.v, norm)),
                     r |-> Append(frame.r,
                                  [i \in 1..args.n |->
                                     IF i <= frame.j THEN gs.r[i]
                                     ELSE IF i = frame.j + 1 THEN norm ELSE 0])]
    /\ pc' = "qr_loop"
    /\ UNCHANGED << inputs, driver, args, result >>

qr_decomposition_return ==
    /\ entry = "qr_decomposition"
    /\ pc \in {"call", "qr_loop"}
    /\ ~(frame.j < args.n)
    /\ result' = [kind |-> "Returned", q |-> frame.q, r |-> frame.r]
    /\ pc' = "done"
    /\ UNCHANGED << inputs, driver, args, frame >>

\* ------------------------------------------------------- solve_linear_system
\* the calls of solve_linear_system: 1 x 1 and 2 x 2 systems, and matrices
\* whose shape does not match b
LinearSystems ==
    LET E == {-2, 0, 1, 3}
        B == {0, 3, 6}
    IN  [a : {<< << v >> >> : v \in E}, b : {<< w >> : w \in B}]
        \cup [a : {<< << p, q >>, << r, s >> >> : p \in E, q \in E, r \in E, s \in E},
              b : {<< v, w >> : v \in B, w \in B}]
        \cup [a : {<< << 1, 3 >> >>, << << 1 >>, << 3 >> >>, << << 1, 0 >>, << 0, 1 >> >>},
              b : {<< 3 >>}]
        \cup [a : {<< << 3 >> >>, << << 1, 3 >> >>, << << 1 >>, << 3 >> >>},
              b : {<< 3, 6 >>}]

\* a.nrows() != n || a.ncols() != n
DimensionMismatch(a, b) ==
    Len(a) # Len(b) \/ \E i \in 1..Len(a) : Len(a[i]) # Len(b)

solve_linear_system_call ==
    /\ entry = "solve_linear_system"
    /\ args \in LinearSystems
    /\ frame = NoFrame
    /\ result = NoResult
    /\ DriverIdle

\* Err(AutoError::LinearAlgebraError("Matrix dimension mismatch"))
solve_linear_system_mismatch ==
    /\ entry = "solve_linear_system"
    /\ pc = "call"
    /\ DimensionMismatch(args.a, args.b)
    /\ result' = [kind |-> "LinearAlgebraError"]
    /\ pc' = "done"
    /\ UNCHANGED << inputs, driver, args, frame >>

\* elimination and back substitution on the copy aug; frame keeps the row
\* the pivot search of column 0 selected
solve_linear_system_eliminate ==
    /\ entry = "solve_linear_system"
    /\ pc = "call"
    /\ ~DimensionMismatch(args.a, args.b)
    /\ frame' = [max_row |-> IF Len(args.b) = 1 THEN 1 ELSE max_row(args.a)]
    /\ result' = IF solve_linear_system_f64(args.a, args.b).ok
                 THEN [kind |-> "Ok", x |-> solve_linear_system_f64(args.a, args.b).x]
                 ELSE [kind |-> "SingularJacobian", value |-> 0]
    /\ pc' = "done"
    /\ UNCHANGED << inputs, driver, args >>

\* -------------------------------------------------------------------- Spec
Init ==
    \/ DriverInit
    \/ compute_eigenvalues_call
    \/ detect_bifurcation_call
    \/ newton_solve_call
    \/ solve_linear_system_call
    \/ qr_decomposition_call
    \/ state_jacobian_call
    \/ stable_segments_call

Next ==
    \/ natural_start
    \/ natural_step
    \/ natural_newton_error
    \/ natural_return
    \/ arclength_start
    \/ arclength_accept
    \/ arclength_reject
    \/ arclength_return
    \/ branch_switch_start
    \/ compute_eigenvalues_direct
    \/ qr_eigenvalues_iterate
    \/ qr_eigenvalues_scan
    \/ qr_eigenvalues_return
    \/ detect_bifurcation_return
    \/ newton_solve_converged
    \/ newton_solve_update
    \/ newton_solve_singular
    \/ newton_solve_exhausted
    \/ solve_linear_system_mismatch
    \/ solve_linear_system_eliminate
    \/ qr_decomposition_column
    \/ qr_decomposition_return
    \/ state_jacobian_some
    \/ state_jacobian_none
    \/ stable_segments_visit
    \/ stable_segments_return

Spec == Init /\ [][Next]_vars

\* ------------------------------------------------------------------ claims
\* a step in which arclength_continuation called the corrector and it failed
CorrectorFailed ==
    /\ corrector'.count = corrector.count + 1
    /\ corrector'.result \in {"ConvergenceFailed", "SingularJacobian"}

\* C1: when the corrector of arclength_continuation fails (ConvergenceFailed
\* or SingularJacobian), x, par, the tangent, the cumulative arclength,
\* branch.points and branch.bifurcations are unchanged, ds is halved and
\* step_size_reductions grows by exactly 1; the attempt that follows a failed
\* one starts from the same last accepted point, with the same tangent and
\* the halved ds.
C1_CorrectorFailureFrame ==
    [][/\ CorrectorFailed =>
            /\ x' = x
            /\ par' = par
            /\ tangent' = tangent
            /\ arclength' = arclength
            /\ branch'.points = branch.points
            /\ branch'.bifurcations = branch.bifurcations
            /\ ds' = Round(ds, 2)
            /\ branch'.stats.step_size_reductions
                   = branch.stats.step_size_reductions + 1
       /\ (corrector'.count = corrector.count + 1
             /\ corrector.result \in {"ConvergenceFailed", "SingularJacobian"}) =>
            /\ corrector'.x0 = corrector.x0
            /\ corrector'.par0 = corrector.par0
            /\ corrector'.tangent = corrector.tangent
            /\ corrector'.ds = Round(corrector.ds, 2)
            /\ corrector'.x0 = Last(branch.points).state
            /\ corrector'.par0 = Last(branch.points).parameter]_vars

\* C1 happens: after an accepted step the corrector has failed twice, the
\* second time on the retry with the halved ds
C1_Witness ==
    /\ pc = "arclength_loop"
    /\ corrector.count >= 3
    /\ corrector.result \in {"ConvergenceFailed", "SingularJacobian"}
    /\ Len(branch.points) >= 2
    /\ branch.stats.step_size_reductions >= 2
    /\ corrector.x0 = Last(branch.points).state
    /\ ds = Round(corrector.ds, 2)
    /\ 2 * ds = corrector.ds

\* a run of arclength_continuation, called directly or by branch_switch
InArclength == pc \in {"arclength_loop", "arclength_call"}
                  \/ (pc = "call" /\ entry = "arclength_continuation")

\* C2: arclength_continuation returns an error only as StepTooSmall(d), exactly
\* when a corrector failure halves ds to a d < ds_min; no other error escapes
\* it, and the error carries no points.
C2_OnlyStepTooSmall ==
    [][InArclength =>
          /\ (ret'.kind = "Err") <=> (CorrectorFailed /\ Round(ds, 2) < dparams.ds_min)
          /\ (ret'.kind = "Err") =>
                /\ ret'.err = "StepTooSmall"
                /\ ret'.value = Round(ds, 2)
                /\ ret'.value < dparams.ds_min
                /\ ret'.branch.points = << >>
                /\ pc' = "done"]_vars

\* C2 happens: StepTooSmall(d) was returned after points had been accumulated
C2_Witness ==
    /\ entry = "arclength_continuation"
    /\ ret.kind = "Err"
    /\ ret.err = "StepTooSmall"
    /\ ret.value = ds
    /\ ds < dparams.ds_min
    /\ Len(branch.points) >= 2
    /\ corrector.result = "SingularJacobian"

\* the step loop of a continuation driver has used up its budget
BudgetExhausted == pc \in {"natural_loop", "arclength_loop"} /\ step >= dparams.max_steps

\* C3: when max_steps is exhausted natural_continuation and
\* arclength_continuation return Ok with the branch accumulated so far;
\* MaxStepsReached is never returned by any entry point; max_steps = 0 gives
\* Ok with an empty branch (natural) and Ok with exactly the initial point
\* (arclength).
C3_BudgetExhaustedIsOk ==
    /\ [](ret.kind = "Err" => ret.err # "MaxStepsReached")
    /\ []((ret.kind = "Ok" /\ dparams.max_steps = 0) =>
            IF entry = "natural_continuation"
            THEN ret.branch.points = << >> /\ ret.branch.bifurcations = << >>
            ELSE /\ Len(ret.branch.points) = 1
                 /\ ret.branch.points[1].parameter = dparams.par_start
                 /\ ret.branch.points[1].state = initial_state
                 /\ ret.branch.bifurcations = << >>)
    /\ [][BudgetExhausted =>
            /\ ret'.kind = "Ok"
            /\ ret'.branch.points = branch.points
            /\ ret'.branch.bifurcations = branch.bifurcations
            /\ entry # "branch_switch" => ret'.branch = branch]_vars

\* C3 happens: natural_continuation used up a budget of MaxSteps steps and
\* returned the points it had accumulated
C3_Witness ==
    /\ entry = "natural_continuation"
    /\ ret.kind = "Ok"
    /\ dparams.max_steps = MaxSteps
    /\ step = MaxSteps
    /\ Len(ret.branch.points) = MaxSteps

\* the direction of travel of natural_continuation, +1 or -1
Travel(p) == IF p.par_end > p.par_start THEN 1 ELSE -1

\* par_start after k floating-point additions of direction * ds
RECURSIVE AccumulatedPar(_, _)
AccumulatedPar(p, k) ==
    IF k = 0 THEN p.par_start
    ELSE FAdd(AccumulatedPar(p, k - 1), FMul(Travel(p), p.ds))

\* 0.0 after k floating-point additions of ds
RECURSIVE AccumulatedArc(_, _)
AccumulatedArc(p, k) == IF k = 0 THEN 0 ELSE FAdd(AccumulatedArc(p, k - 1), p.ds)

\* v is strictly past par_end in the direction of travel
StrictlyPast(p, v) == IF Travel(p) > 0 THEN v > p.par_end ELSE v < p.par_end

Between(lo, v, hi) == (lo <= v /\ v <= hi) \/ (hi <= v /\ v <= lo)

Min(a, b) == IF a < b THEN a ELSE b

\* a run of natural_continuation in which no Newton call has failed
NaturalNoFailure == entry = "natural_continuation" /\ ret.kind # "Err" /\ params.ds > 0

\* C4 as amended: in natural_continuation with ds > 0 and no Newton failure
\* the k-th recorded point has the parameter reached from par_start by k
\* floating-point additions of direction * ds and the arclength reached from
\* 0.0 by k floating-point additions of ds; the run stops as soon as that
\* parameter is strictly past par_end or after max_steps iterations, so the
\* number of points is max_steps, or else the least n >= 1 whose accumulated
\* parameter is strictly past par_end; every recorded parameter lies between
\* par_start and par_end inclusive.
C4_AccumulatedParameters ==
    NaturalNoFailure =>
        /\ \A k \in 0..(Len(branch.points) - 1) :
              /\ branch.points[k + 1].parameter = AccumulatedPar(params, k)
              /\ branch.points[k + 1].arclength = AccumulatedArc(params, k)
              /\ Between(params.par_start, branch.points[k + 1].parameter, params.par_end)
              /\ k >= 1 => ~StrictlyPast(params, AccumulatedPar(params, k))
        /\ ret.kind = "Ok" =>
              /\ ret.branch.points = branch.points
              /\ \/ Len(branch.points) = params.max_steps
                 \/ /\ Len(branch.points) < params.max_steps
                    /\ Len(branch.points) >= 1
                    /\ StrictlyPast(params, AccumulatedPar(params, Len(branch.points)))

\* C4 happens: a run returned three points, the third at a parameter that
\* two exact additions of ds would not give
C4_Witness ==
    /\ NaturalNoFailure
    /\ ret.kind = "Ok"
    /\ Len(ret.branch.points) = 3
    /\ ret.branch.points[3].parameter = AccumulatedPar(params, 2)
    /\ ret.branch.points[3].parameter # params.par_start + 2 * Travel(params) * params.ds

\* C4 as stated: the k-th point has parameter par_start + k * direction * ds
\* and arclength k * ds, the number of points is
\* min(max_steps, floor(|par_end - par_start| / ds) + 1), and every recorded
\* parameter lies between par_start and par_end.
C4_Original ==
    NaturalNoFailure =>
        /\ \A k \in 0..(Len(branch.points) - 1) :
              /\ branch.points[k + 1].parameter
                    = params.par_start + k * Travel(params) * params.ds
              /\ branch.points[k + 1].arclength = k * params.ds
              /\ Between(params.par_start, branch.points[k + 1].parameter, params.par_end)
        /\ ret.kind = "Ok" =>
              Len(ret.branch.points)
                 = Min(params.max_steps,
                       (Abs(params.par_end - params.par_start) \div params.ds) + 1)

\* v is strictly past par_end in the direction from par_start to par_end
PastParEnd(p, v) ==
    \/ (p.par_end > p.par_start /\ v > p.par_end)
    \/ (p.par_end < p.par_start /\ v < p.par_end)

\* the run is arclength_continuation's, called directly or by branch_switch,
\* and has recorded its initial point
ArclengthRunning == entry # "natural_continuation" /\ branch.points # << >>

CorrectorAccepted ==
    /\ corrector'.count = corrector.count + 1
    /\ corrector'.result = "Ok"

\* C6: after an accepted arclength step ds is min(1.5 * ds, ds_max) if the
\* corrector converged in fewer than 3 iterations, and is unchanged if it took
\* 3 or more.
C6_StepAdaptation ==
    [][CorrectorAccepted =>
          ds' = IF corrector'.iters < 3
                THEN IF Round(3 * ds, 2) > dparams.ds_max
                     THEN dparams.ds_max
                     ELSE Round(3 * ds, 2)
                ELSE ds]_vars

\* C6 happens: a step accepted after fewer than 3 iterations grew ds to the
\* cap ds_max, below 1.5 * ds
C6_Witness ==
    /\ corrector.result = "Ok"
    /\ corrector.iters < 3
    /\ Len(branch.points) >= 2
    /\ ds = dparams.ds_max
    /\ ds # corrector.ds
    /\ Round(3 * corrector.ds, 2) > dparams.ds_max

\* C7 as stated: every Newton or corrector call a continuation driver has
\* made, successful or failed, has added the iterations it performed to
\* stats.newton_iterations and stats.jacobian_evaluations of the branch being
\* built.
C7_Original ==
    (pc \in {"natural_loop", "arclength_loop", "done"} /\ ret.kind # "Err") =>
        /\ branch.stats.newton_iterations = performed
        /\ branch.stats.jacobian_evaluations = performed

\* the number of SolutionPoints the step loop of the driver appended to b
AppendedInLoop(b) ==
    IF entry = "natural_continuation" THEN Len(b.points) ELSE Len(b.points) - 1

\* C8 as stated: on every Ok return of natural_continuation or
\* arclength_continuation stats.total_steps is the number of accepted steps,
\* the SolutionPoints appended inside the step loop.
C8_Original ==
    (entry # "branch_switch" /\ ret.kind = "Ok") =>
        ret.branch.stats.total_steps = AppendedInLoop(ret.branch)

IsTagged(point) == point.bifurcation # "None"

TaggedPoints(b) == SelectSeq(b.points, IsTagged)

\* C9: in every returned branch the i-th BifurcationPoint has the parameter
\* and state of the i-th SolutionPoint that carries a bifurcation tag, and
\* that tag as its bif_type; stats.bifurcations_detected is the number of
\* BifurcationPoints and the number of tagged points.
C9_BifurcationsMatchTaggedPoints ==
    ret.kind = "Ok" =>
        /\ Len(ret.branch.bifurcations) = Len(TaggedPoints(ret.branch))
        /\ ret.branch.stats.bifurcations_detected = Len(ret.branch.bifurcations)
        /\ \A i \in 1..Len(ret.branch.bifurcations) :
              /\ ret.branch.bifurcations[i].parameter
                    = TaggedPoints(ret.branch)[i].parameter
              /\ ret.branch.bifurcations[i].state = TaggedPoints(ret.branch)[i].state
              /\ ret.branch.bifurcations[i].bif_type
                    = TaggedPoints(ret.branch)[i].bifurcation

\* C9 happens: a returned branch holds two bifurcations, at different points,
\* among untagged points
C9_Witness ==
    /\ ret.kind = "Ok"
    /\ Len(ret.branch.bifurcations) = 2
    /\ ret.branch.bifurcations[1].parameter # ret.branch.bifurcations[2].parameter
    /\ Len(ret.branch.points) > 2

\* C10: in every returned branch a point is flagged stable if and only if
\* every eigenvalue stored in it has a strictly negative real part.
C10_StableIffAllNegative ==
    ret.kind = "Ok" =>
        \A i \in 1..Len(ret.branch.points) :
            ret.branch.points[i].stable
               <=> \A j \in 1..Len(ret.branch.points[i].eigenvalues) :
                       ret.branch.points[i].eigenvalues[j][1] < 0

\* C10 happens: a returned branch holds a stable point and a point that an
\* eigenvalue with real part 0 makes unstable
C10_Witness ==
    /\ ret.kind = "Ok"
    /\ \E i \in 1..Len(ret.branch.points) : ret.branch.points[i].stable
    /\ \E i \in 1..Len(ret.branch.points) :
          /\ ~ret.branch.points[i].stable
          /\ \A j \in 1..Len(ret.branch.points[i].eigenvalues) :
                ret.branch.points[i].eigenvalues[j][1] <= 0

\* the points stored so far, by any driver
AllPoints == {branch.points[k] : k \in 1..Len(branch.points)}

\* C11: compute_eigenvalues returns exactly n pairs for an n x n matrix, n >= 0,
\* whatever sub-diagonal pattern the QR loop leaves: the scan of qr_eigenvalues
\* has appended one pair per index below i, has used the indices 0, .., i - 1
\* once each and in order, and never runs past n; so every stored
\* SolutionPoint has as many eigenvalues as the system has dimensions.
C11_OnePairPerRow ==
    /\ (entry = "compute_eigenvalues" /\ pc = "done") =>
          Len(result.value) = args.n
    /\ pc = "qr_scan" =>
          /\ frame.i <= args.n
          /\ Len(frame.eigenvalues) = frame.i
          /\ frame.consumed = Indices(0, frame.i)
    /\ \A pt \in AllPoints : Len(pt.eigenvalues) = dim(system)

\* a matrix of more than two rows whose scan met a real eigenvalue first and a
\* 2x2 block afterwards has been returned from
C11_Witness ==
    /\ entry = "compute_eigenvalues"
    /\ pc = "done"
    /\ args.n > 2
    /\ SubDiagSmall(frame.h[2][1])
    /\ \E i \in 1..(args.n - 2) : BlockSize(frame.h, i, args.n) = 2
    /\ Len(result.value) = args.n

\* the arclength fields of the points in insertion order never decrease
NonDecreasing(points) ==
    \A k \in 1..(Len(points) - 1) : points[k + 1].arclength >= points[k].arclength

\* C12: with ds > 0, and for the arclength driver a cap ds_max > 0, the first
\* point of a branch has arclength 0 and arclength never decreases along the
\* points; natural continuation adds ds per point, an accepted arclength step
\* adds the ds that step was attempted with, and a failed corrector attempt
\* leaves the running arclength as it was.
C12_ArclengthNonDecreasing ==
    /\ []((dparams.ds > 0 /\ (entry # "natural_continuation" => dparams.ds_max > 0)) =>
            /\ branch.points # << >> => branch.points[1].arclength = 0
            /\ NonDecreasing(branch.points)
            /\ entry = "natural_continuation" =>
                  \A k \in 1..(Len(branch.points) - 1) :
                      branch.points[k + 1].arclength =
                          FAdd(branch.points[k].arclength, dparams.ds))
    /\ [][CorrectorAccepted =>
            /\ arclength' = FAdd(arclength, corrector'.ds)
            /\ Last(branch'.points).arclength = arclength']_vars
    /\ [][CorrectorFailed => arclength' = arclength]_vars

\* C12 happens: a branch of the arclength driver holds three points, the
\* steps between them accepted with different ds, after a failed attempt
C12_Witness ==
    /\ entry = "arclength_continuation"
    /\ ret.kind = "Ok"
    /\ dparams.ds_max > 0
    /\ branch.stats.step_size_reductions > 0
    /\ Len(branch.points) >= 3
    /\ branch.points[3].arclength - branch.points[2].arclength
         # branch.points[2].arclength - branch.points[1].arclength

\* C12 as stated: in every branch returned by a driver run with ds > 0 the
\* arclength field is 0 at the first point and non-decreasing along the points.
C12_Original ==
    (ret.kind = "Ok" /\ dparams.ds > 0) =>
        /\ ret.branch.points # << >> => ret.branch.points[1].arclength = 0
        /\ NonDecreasing(ret.branch.points)

\* the points whose residual the driver evaluated: all but the first point of
\* an arclength run
EvaluatedPoints ==
    {branch.points[k] :
        k \in (IF entry = "natural_continuation" THEN 1 ELSE 2)..Len(branch.points)}

TangentAbsent == entry = "branch_switch" /\ bif_point.tangent = NoTangent

\* C14: branch_switch with an absent tangent returns InvalidParameter in its
\* first step, with no point stored, no Newton iteration performed and no
\* corrector called; with a tangent present it never returns InvalidParameter,
\* and no other entry point does.
C14_InvalidParameter ==
    /\ [][(pc = "call" /\ TangentAbsent) =>
            /\ ret' = RetErr("InvalidParameter", 0)
            /\ pc' = "done"
            /\ branch' = NewBranch("")
            /\ performed' = 0
            /\ corrector' = NoCall]_vars
    /\ []((ret.kind = "Err" /\ ret.err = "InvalidParameter") => TangentAbsent)
    /\ [](TangentAbsent => branch.points = << >> /\ performed = 0 /\ corrector.count = 0)

\* C14 happens: branch_switch has returned InvalidParameter
C14_Witness ==
    /\ TangentAbsent
    /\ pc = "done"
    /\ ret.kind = "Err"
    /\ ret.err = "InvalidParameter"

\* the start of the sub-run of branch_switch: state + perturbation * tangent[0..n]
\* and par_start = parameter + perturbation * tangent[n], the tangent being
\* D / |D| for the integer direction D stored with the bifurcation point
PerturbedStart ==
    /\ initial_state =
          [i \in 1..Len(bif_point.state) |->
              FAdd(bif_point.state[i],
                   Round(perturbation * bif_point.tangent[i], Norm(bif_point.tangent)))]
    /\ dparams = [params EXCEPT !.par_start =
          FAdd(bif_point.parameter,
               Round(perturbation * bif_point.tangent[Len(bif_point.state) + 1],
                     Norm(bif_point.tangent)))]

\* C15: a successful branch_switch returns the branch "switched" with the
\* points, bifurcations and stats of the branch that arclength_continuation
\* built from the perturbed start, stats.branch_switches being 1 instead of 0;
\* a failed sub-run's error is what branch_switch returns; the bifurcation
\* point, the params and the perturbation are never modified.
C15_SwitchedBranch ==
    /\ []((entry = "branch_switch" /\ ~TangentAbsent /\ pc # "call") =>
            /\ PerturbedStart
            /\ pc # "arclength_call" => branch.name = "arclength"
            /\ branch.stats.branch_switches = 0)
    /\ []((entry = "branch_switch" /\ ret.kind = "Ok") =>
            /\ ret.branch.name = "switched"
            /\ ret.branch.points = branch.points
            /\ ret.branch.bifurcations = branch.bifurcations
            /\ ret.branch.stats = [branch.stats EXCEPT !.branch_switches = 1])
    /\ []((entry = "branch_switch" /\ ret.kind = "Err" /\ ~TangentAbsent) =>
            ret = RetErr("StepTooSmall", ds))
    /\ [][inputs' = inputs]_vars

\* C15 happens: branch_switch has returned a branch with a corrected point
C15_Witness ==
    /\ entry = "branch_switch"
    /\ ret.kind = "Ok"
    /\ Len(ret.branch.points) >= 2
    /\ ret.branch.stats.newton_iterations > 0
    /\ initial_state # bif_point.state

\* the position of eigs[i] when eigs is ordered by descending real part,
\* equal real parts keeping their order
RankDesc(eigs, i) ==
    1 + Cardinality({j \in 1..Len(eigs) : eigs[j][1] > eigs[i][1]})
      + Cardinality({j \in 1..(i - 1) : eigs[j][1] = eigs[i][1]})

AtRank(eigs, r) == eigs[CHOOSE i \in 1..Len(eigs) : RankDesc(eigs, i) = r]

\* what one pair of eigenvalues of equal rank amounts to
Match(prev, curr) ==
    IF ~((prev[1] < 0 /\ curr[1] > 0) \/ (prev[1] > 0 /\ curr[1] < 0)) THEN "None"
    ELSE IF prev[2] = 0 /\ curr[2] = 0 THEN "SaddleNode"
    ELSE IF prev[2] # 0 THEN "Hopf"
    ELSE "None"

\* the ranks at which the two lists match
Matches(prev_eigs, curr_eigs) ==
    {r \in 1..Len(prev_eigs) :
        Match(AtRank(prev_eigs, r), AtRank(curr_eigs, r)) # "None"}

\* C16: detect_bifurcation returns None for lists of different lengths;
\* otherwise it pairs the eigenvalues of equal rank by descending real part
\* and returns the verdict of the first pair that matches: SaddleNode for
\* real parts of strictly opposite signs with both imaginary parts negligible,
\* Hopf for opposite signs with a non-negligible previous imaginary part;
\* None if no pair matches; never anything else.
C16_DetectBifurcation ==
    (entry = "detect_bifurcation" /\ pc = "done") =>
        /\ result.value \in {"None", "SaddleNode", "Hopf"}
        /\ result.value =
             IF Len(args.prev_eigs) # Len(args.curr_eigs) THEN "None"
             ELSE IF Matches(args.prev_eigs, args.curr_eigs) = {} THEN "None"
             ELSE LET first == CHOOSE r \in Matches(args.prev_eigs, args.curr_eigs) :
                                 \A q \in Matches(args.prev_eigs, args.curr_eigs) : r <= q
                  IN  Match(AtRank(args.prev_eigs, first), AtRank(args.curr_eigs, first))

\* C16 happens: two lists with equal real parts in the previous one, whose
\* first pair by rank is a real crossing although a complex eigenvalue with
\* the same real part follows it
C16_Witness ==
    /\ entry = "detect_bifurcation"
    /\ pc = "done"
    /\ args.prev_eigs = << << -1, 0 >>, << -1, 1 >> >>
    /\ args.curr_eigs = << << 2, 0 >>, << 2, 0 >> >>
    /\ result.value = "SaddleNode"

\* C17: with detect_bifurcations = false a branch never holds a tagged point,
\* a BifurcationPoint or a non-zero bifurcations_detected; with detection on
\* the first point is never tagged and the tag of every later point is the
\* verdict of detect_bifurcation on the eigenvalues of the point recorded
\* just before it and its own.
C17_DetectionSwitch ==
    /\ ~dparams.detect_bifurcations =>
          /\ TaggedPoints(branch) = << >>
          /\ branch.bifurcations = << >>
          /\ branch.stats.bifurcations_detected = 0
          /\ ret.kind = "Ok" => ret.branch = branch
    /\ branch.points # << >> => ~IsTagged(branch.points[1])
    /\ dparams.detect_bifurcations =>
          \A k \in 2..Len(branch.points) :
              branch.points[k].bifurcation =
                  detect_bifurcation(branch.points[k - 1].eigenvalues,
                                     branch.points[k].eigenvalues)

\* C17 happens: a run without detection has returned a branch along which
\* detect_bifurcation would have tagged a point
C17_Witness ==
    /\ ~dparams.detect_bifurcations
    /\ ret.kind = "Ok"
    /\ \E k \in 2..Len(ret.branch.points) :
          detect_bifurcation(ret.branch.points[k - 1].eigenvalues,
                             ret.branch.points[k].eigenvalues) # "None"

\* newton_solve has returned
NewtonDone == entry = "newton_solve" /\ pc = "done"

\* the iterate of index j (the guess is 0) meets the tolerance
Meets(j) == FSqrt(SumSq(rhs(args.sys, frame.iterates[j + 1], args.par))) < args.tol

\* xn is xs minus the solution dx of jacobian(xs) dx = f(xs)
IsNewtonStep(xs, xn) ==
    /\ solve_linear_system_f64(jacobian(args.sys, xs, args.par), rhs(args.sys, xs, args.par)).ok
    /\ \A i \in 1..Len(xs) :
          xn[i] = FSub(xs[i], solve_linear_system_f64(jacobian(args.sys, xs, args.par),
                                                      rhs(args.sys, xs, args.par)).x[i])

\* C18: newton_solve returns Ok((x, k)) exactly when iterate k - 1 is the first
\* of the iterates 0, .., max_iter - 1 that meets the tolerance, x being that
\* iterate, reached by k - 1 updates; it returns ConvergenceFailed(max_iter)
\* exactly when none of the iterates 0, .., max_iter - 1 meets it and no
\* linear solve failed, having applied max_iter updates; the iterate made by
\* the last update is not tested.
C18_NewtonResult ==
    /\ (NewtonDone /\ result.kind = "Ok") =>
          /\ result.iters \in 1..args.max_iter
          /\ Len(frame.iterates) = result.iters
          /\ result.x = frame.iterates[result.iters]
          /\ Meets(result.iters - 1)
          /\ \A j \in 0..(result.iters - 2) : ~Meets(j)
    /\ (NewtonDone /\ result.kind = "ConvergenceFailed") =>
          /\ result.iters = args.max_iter
          /\ Len(frame.iterates) = args.max_iter + 1
          /\ \A j \in 0..(args.max_iter - 1) : ~Meets(j)
    /\ (NewtonDone /\ result.kind = "SingularJacobian") =>
          \A j \in 0..(Len(frame.iterates) - 1) : ~Meets(j)
    /\ entry = "newton_solve" =>
          /\ frame.iterates[1] = args.x0
          /\ frame.x = frame.iterates[Len(frame.iterates)]
          /\ \A j \in 1..(Len(frame.iterates) - 1) : IsNewtonStep(frame.iterates[j], frame.iterates[j + 1])

\* C18 happens: the guess was off, two updates reached the tolerance and the
\* third iteration accepted the iterate
C18_Witness ==
    /\ NewtonDone
    /\ result.kind = "Ok"
    /\ result.iters = 3
    /\ result.x # args.x0

\* C18 as stated: ConvergenceFailed is returned, after at least one update,
\* only when none of the iterates produced, the one made by the last update
\* included, meets the tolerance.
C18_Original ==
    (NewtonDone /\ result.kind = "ConvergenceFailed" /\ args.max_iter > 0) =>
        \A j \in 0..(Len(frame.iterates) - 1) : ~Meets(j)

\* the largest absolute entry of the first column of a is below 1e-15
FirstColumnZero(a) == \A i \in 1..Len(a) : a[i][1] = 0

\* C19: a Newton iteration whose linear solve meets a column with no entry
\* of magnitude 1e-15 or more ends newton_solve at once with
\* SingularJacobian: x is not updated, and f and the Jacobian have been
\* evaluated once per iteration started and never again; a Newton call of
\* natural_continuation that fails so ends the run with Err(SingularJacobian),
\* which carries none of the points accumulated.
C19_SingularJacobian ==
    /\ [][(NewtonIterating /\ ~ResidualSmall(NewtonResidual, args.tol)
              /\ FirstColumnZero(jacobian(args.sys, frame.x, args.par))) =>
            /\ pc' = "done"
            /\ result'.kind = "SingularJacobian"
            /\ frame'.x = frame.x
            /\ frame'.iterates = frame.iterates
            /\ frame'.f_evals = frame.f_evals + 1
            /\ frame'.jac_evals = frame.jac_evals + 1]_vars
    /\ []((NewtonDone /\ result.kind = "SingularJacobian") =>
            /\ frame.f_evals = frame.iter + 1
            /\ frame.jac_evals = frame.iter + 1
            /\ Len(frame.iterates) = frame.iter + 1
            /\ ~NewtonStep.ok)
    /\ [][(pc = "natural_loop" /\ step < dparams.max_steps
              /\ dparams.newton_max_iter > 0
              /\ ~ResidualSmall(rhs(system, x, par), dparams.newton_tol)
              /\ FirstColumnZero(jacobian(system, x, par))) =>
            /\ pc' = "done"
            /\ ret' = RetErr("SingularJacobian", 0)]_vars
    /\ []((entry = "natural_continuation" /\ ret.kind = "Err") =>
            /\ pc = "done"
            /\ ret.err \in {"SingularJacobian", "ConvergenceFailed"}
            /\ ret.branch.points = << >>)

\* C19 happens: natural_continuation had recorded a point when a Newton call
\* met a singular Jacobian at its first iteration, and returned the error
C19_Witness ==
    /\ entry = "natural_continuation"
    /\ pc = "done"
    /\ ret = RetErr("SingularJacobian", 0)
    /\ branch.points # << >>
    /\ FirstColumnZero(jacobian(system, x, par))

\* C19 also happens in a direct call: the second iteration of newton_solve met
\* the singular Jacobian
C19_NewtonWitness ==
    /\ NewtonDone
    /\ result.kind = "SingularJacobian"
    /\ frame.iter = 1

\* a run on the fold normal form from the point x = 1 of the upper branch at
\* mu = 1, towards smaller mu
FoldRun ==
    /\ system = "FoldNormalForm"
    /\ initial_state = << 1 >>
    /\ dparams.par_start = 1
    /\ dparams.par_end < dparams.par_start

\* the states of the points recorded so far
RecordedStates == {branch.points[k].state[1] : k \in 1..Len(branch.points)}

LinearDone == entry = "solve_linear_system" /\ pc = "done"

\* the quotient num / den is formed without rounding
ExactQuotient(num, den) == den # 0 /\ FDiv(num, den) * den = num

\* the product and the difference c - f * d are formed without rounding
ExactUpdate(c, f, d) == Representable(f * d) /\ Representable(c - f * d)

\* row j of a times the vector v, in exact arithmetic
RowTimes(a, j, v) == DotUpTo(a[j], v, Len(v))

\* no operation of the elimination of a 2 x 2 system rounds; top is the pivot
\* row of column 0 and other the remaining row of the augmented matrix
NoRounding2(top, other) ==
    /\ ExactQuotient(other[1], top[1])
    /\ \A j \in 1..3 : ExactUpdate(other[j], other[1] \div top[1], top[j])
    /\ LET f == other[1] \div top[1]
           r2 == other[2] - f * top[2]
           rb == other[3] - f * top[3]
       IN  /\ ExactQuotient(rb, r2)
           /\ ExactUpdate(top[3], top[2], rb \div r2)
           /\ ExactQuotient(top[3] - top[2] * (rb \div r2), top[1])

\* no operation of solve_linear_system(a, b) rounds
NoRounding(a, b) ==
    IF Len(b) = 1 THEN ExactQuotient(b[1], a[1][1])
    ELSE LET k == IF Abs(a[2][1]) > Abs(a[1][1]) THEN 2 ELSE 1
         IN  NoRounding2(<< a[k][1], a[k][2], b[k] >>,
                         << a[3 - k][1], a[3 - k][2], b[3 - k] >>)

\* the determinant of a 1 x 1 or 2 x 2 matrix
Determinant(a) == IF Len(a) = 1 THEN a[1][1] ELSE Det2(a)

\* a is n x n for n = len(b)
Matching(a, b) == Len(a) = Len(b) /\ \A i \in 1..Len(a) : Len(a[i]) = Len(b)

QrDone == entry = "qr_decomposition" /\ pc = "done"

\* entry (i, j) of Q^T * Q, of Q * R and of R, for q and r kept by columns
QtQ(i, j) == Dot(result.q[i], result.q[j])
QR(i, j) == DotUpTo([k \in 1..args.n |-> result.q[k][i]], result.r[j], args.n)

\* C22: for any square matrix A, rank-deficient ones and the zero matrix
\* included, qr_decomposition(A) returns (Q, R) with Q^T * Q the identity,
\* Q * R equal to A and R upper triangular
C22_Original ==
    QrDone =>
        \A i \in 1..args.n : \A j \in 1..args.n :
            /\ QtQ(i, j) = (IF i = j THEN 1 ELSE 0)
            /\ QR(i, j) = args.a[i][j]
            /\ (i > j => result.r[j][i] = 0)

\* what does hold: Q * R = A, R is upper triangular with a non-negative
\* diagonal, the columns of Q are pairwise orthogonal, and column j of Q is a
\* unit vector if r[[j, j]] is not negligible and the zero vector otherwise
C22_QrOfRankDeficient ==
    QrDone =>
        \A i \in 1..args.n : \A j \in 1..args.n :
            /\ QtQ(i, j) = (IF i = j /\ result.r[j][j] # 0 THEN 1 ELSE 0)
            /\ QR(i, j) = args.a[i][j]
            /\ (i > j => result.r[j][i] = 0)
            /\ result.r[j][j] >= 0

\* the zero 3 x 3 matrix has been decomposed, and so has a full-rank one
C22_Witness ==
    /\ QrDone
    /\ args.n = 3
    /\ \E j \in 1..3 : result.r[j][j] = 0
    /\ \E j \in 1..3 : result.r[j][j] # 0 /\ \E k \in 1..3 : result.q[j][k] = -1

\* the state Jacobian has been obtained
JacobianDone == entry = "state_jacobian" /\ pc = "done"

\* rhs at x with h * eps added to component j
RhsAt(j, h) == rhs(args.sys, [args.x EXCEPT ![j] = FAdd(@, h * FdEps)], args.par)

EigenDone == entry = "compute_eigenvalues" /\ pc = "done"

\* trace, determinant and discriminant of the 2 x 2 argument, in exact
\* arithmetic
ExactTrace == args.a[1][1] + args.a[2][2]
ExactDet == args.a[1][1] * args.a[2][2] - args.a[1][2] * args.a[2][1]
ExactDisc == ExactTrace * ExactTrace - 4 * ExactDet

\* none of the products and differences behind the discriminant is rounded
DiscExact ==
    /\ Representable(ExactTrace) /\ Representable(ExactDet)
    /\ Representable(ExactTrace * ExactTrace) /\ Representable(4 * ExactDet)
    /\ Representable(ExactDisc)

\* v is the square of an integer
PerfectSquare(v) == v >= 0 /\ ISqrt(v) * ISqrt(v) = v

C24_WitnessPair ==
    /\ EigenDone
    /\ args.n = 2
    /\ DiscExact /\ ExactDisc < 0 /\ PerfectSquare(-ExactDisc)
    /\ result.value[1][1] # 0

\* the BifurcationPoints recorded so far
Recorded == {branch.bifurcations[k] : k \in 1..Len(branch.bifurcations)}

\* the step records a BifurcationPoint
RecordsBifurcation == Len(branch'.bifurcations) = Len(branch.bifurcations) + 1

\* C25: every BifurcationPoint recorded by natural_continuation has no tangent;
\* every one recorded by arclength_continuation (called directly or by
\* branch_switch) has a tangent of length n + 1, which is compute_tangent at
\* the accepted point and the tangent the next predictor uses; branch_switch
\* returns InvalidParameter exactly on a BifurcationPoint without tangent
C25_BifurcationTangent ==
    /\ [](entry = "natural_continuation" =>
             \A b \in Recorded : b.tangent = NoTangent)
    /\ [](entry \in {"arclength_continuation", "branch_switch"} =>
             \A b \in Recorded : Len(b.tangent) = dim(system) + 1)
    /\ [][(RecordsBifurcation /\ entry # "natural_continuation") =>
             /\ Last(branch'.bifurcations).tangent = tangent'
             /\ tangent' = compute_tangent(system, x', par', tangent, dim(system))
             /\ Last(branch'.bifurcations).state = x'
             /\ Last(branch'.bifurcations).parameter = par']_vars
    /\ []((entry = "branch_switch" /\ pc = "done") =>
             ((ret.kind = "Err" /\ ret.err = "InvalidParameter")
                 <=> bif_point.tangent = NoTangent))

\* an arclength run has recorded a BifurcationPoint whose tangent has a
\* non-zero state component and is the tangent of the next predictor
C25_Witness ==
    /\ entry = "arclength_continuation"
    /\ pc = "arclength_loop"
    /\ branch.bifurcations # << >>
    /\ Last(branch.bifurcations).tangent = tangent
    /\ tangent[1] # 0

\* a natural run has recorded a BifurcationPoint
C25_WitnessNatural ==
    /\ entry = "natural_continuation"
    /\ branch.bifurcations # << >>

\* the determinant of the state Jacobian at (xs, p), in exact arithmetic
JacobianDet(xs, p) ==
    LET a == jacobian(system, xs, p)
    IN  IF Len(a) = 1 THEN a[1][1] ELSE a[1][1] * a[2][2] - a[1][2] * a[2][1]

\* the pure parameter directions (0, .., 0, 1) and (0, .., 0, -1)
ParameterDirections ==
    {[i \in 1..(dim(system) + 1) |-> IF i <= dim(system) THEN 0 ELSE c] : c \in {-1, 1}}

\* the step computes the initial tangent of arclength_continuation
InitialTangentStep == pc \in {"call", "arclength_call"} /\ pc' = "arclength_loop"

\* C26: the initial tangent of arclength_continuation has a parameter
\* component >= 0 if par_end > par_start and <= 0 otherwise; the tangent
\* computed after an accepted step has a non-negative dot product with the
\* tangent used to reach the step; and where the state Jacobian is singular
\* the tangent is the pure parameter direction (0, .., 0, +-1)
C26_TangentOrientation ==
    /\ [][InitialTangentStep =>
            /\ Len(tangent') = dim(system) + 1
            /\ IF dparams.par_end > dparams.par_start
               THEN tangent'[dim(system) + 1] >= 0
               ELSE tangent'[dim(system) + 1] <= 0
            /\ JacobianDet(x', par') = 0 => tangent' \in ParameterDirections]_vars
    /\ [][CorrectorAccepted =>
            /\ Len(tangent') = dim(system) + 1
            /\ Dot(tangent', tangent) >= 0
            /\ JacobianDet(x', par') = 0 => tangent' \in ParameterDirections]_vars
    /\ [][(InArclength /\ ~InitialTangentStep /\ ~CorrectorAccepted) =>
            tangent' = tangent]_vars

\* an accepted step of a run towards smaller parameters left a tangent with a
\* negative parameter component and a non-zero state component, which the
\* forward orientation alone would have reversed
C26_Witness ==
    /\ entry = "arclength_continuation"
    /\ pc = "arclength_loop"
    /\ Len(branch.points) > 1
    /\ tangent[dim(system) + 1] < 0
    /\ tangent[1] # 0
    /\ tangent # compute_initial_tangent(system, x, par, dim(system), TRUE)

\* an accepted step ended where the state Jacobian is singular
C26_WitnessSingular ==
    /\ entry = "arclength_continuation"
    /\ pc = "arclength_loop"
    /\ Len(branch.points) > 1
    /\ JacobianDet(x, par) = 0
    /\ tangent \in ParameterDirections

\* the indices k of the later point of two consecutive points of the branch
\* whose stability flags differ
StabilityChanges ==
    {k \in 2..Len(branch.points) :
        branch.points[k].stable # branch.points[k - 1].stable}

\* C27: with detect_bifurcations enabled, whenever two consecutive
\* SolutionPoints of a branch have different stability flags, the later one
\* carries a bifurcation tag and a BifurcationPoint with its parameter and
\* state is recorded
C27_Original ==
    dparams.detect_bifurcations =>
        \A k \in StabilityChanges :
            /\ IsTagged(branch.points[k])
            /\ \E b \in Recorded :
                  /\ b.parameter = branch.points[k].parameter
                  /\ b.state = branch.points[k].state

\* the configuration satisfies 0 < ds_min <= ds <= ds_max
StepSizesOrdered ==
    /\ 0 < dparams.ds_min
    /\ dparams.ds_min <= dparams.ds
    /\ dparams.ds <= dparams.ds_max

\* v lies in [ds_min, ds_max]
WithinStepBounds(v) == dparams.ds_min <= v /\ v <= dparams.ds_max

\* C28: if 0 < ds_min <= ds <= ds_max, every predictor/corrector attempt of
\* arclength_continuation was made with a step size in [ds_min, ds_max], and
\* so will the next one be: growth by 1.5 is capped at ds_max and a halving
\* below ds_min ends the run
C28_StepSizeBounds ==
    (StepSizesOrdered /\ entry # "natural_continuation") =>
        /\ corrector.count > 0 => WithinStepBounds(corrector.ds)
        /\ pc = "arclength_loop" => WithinStepBounds(ds)
        /\ (pc = "done" /\ ret.kind = "Err" /\ ret.err = "StepTooSmall") =>
              ret.value < dparams.ds_min

\* an attempt with a halved step was accepted after a failed one, and the
\* step has grown again
C28_Witness ==
    /\ StepSizesOrdered
    /\ entry = "arclength_continuation"
    /\ pc = "arclength_loop"
    /\ branch.stats.step_size_reductions > 0
    /\ corrector.result = "Ok"
    /\ corrector.ds < dparams.ds
    /\ ds > corrector.ds

\* accepted steps plus step-size reductions of the branch b
Attempts(b) == (Len(b.points) - 1) + b.stats.step_size_reductions

\* C29: in arclength_continuation every loop iteration is one accepted step
\* or one step-size reduction and uses up one step of the budget: the number
\* of points after the first plus the reductions is the loop counter, on
\* every Ok return it is at most max_steps, and equal to max_steps when the
\* loop ran out, so that the branch holds at most max_steps + 1 points
C29_StepBudget ==
    /\ [](pc = "arclength_loop" =>
             Attempts(branch) = step /\ step <= dparams.max_steps)
    /\ []((entry # "natural_continuation" /\ ret.kind = "Ok") =>
             /\ Attempts(ret.branch) <= dparams.max_steps
             /\ Len(ret.branch.points) <= dparams.max_steps + 1)
    /\ [][(pc = "arclength_loop" /\ corrector'.count = corrector.count + 1) =>
             \/ /\ Len(branch'.points) = Len(branch.points) + 1
                /\ branch'.stats.step_size_reductions = branch.stats.step_size_reductions
             \/ /\ Len(branch'.points) = Len(branch.points)
                /\ branch'.stats.step_size_reductions =
                      branch.stats.step_size_reductions + 1]_vars
    /\ [][(pc = "arclength_loop" /\ BudgetExhausted) =>
             Attempts(ret'.branch) = dparams.max_steps]_vars

\* a run returned Ok after using its whole budget on accepted steps and on
\* step-size reductions
C29_Witness ==
    /\ entry = "arclength_continuation"
    /\ pc = "done"
    /\ ret.kind = "Ok"
    /\ ret.branch.stats.step_size_reductions > 0
    /\ Len(ret.branch.points) > 1
    /\ Attempts(ret.branch) = dparams.max_steps

\* a call of stable_segments has returned
SegmentsDone == entry = "stable_segments" /\ pc = "done"

\* the point at the 0-based index i is stable
StableAt(i) == args.points[i + 1].stable

\* the 0-based index i lies in the segment seg
InSegment(i, seg) == seg[1] <= i /\ i <= seg[2]

\* C30: stable_segments returns, in increasing order, exactly the maximal runs
\* of consecutive stable points as inclusive (start, end) pairs: start <= end
\* < points.len(), every index of a segment is stable, a segment cannot be
\* extended at either end, consecutive segments have an unstable point between
\* them, every stable point lies in exactly one segment, and a branch without
\* stable points yields the empty list
C30_StableSegments ==
    SegmentsDone =>
        LET segs == result.value
            n == Len(args.points)
        IN  /\ \A k \in 1..Len(segs) :
                  /\ 0 <= segs[k][1] /\ segs[k][1] <= segs[k][2] /\ segs[k][2] < n
                  /\ \A i \in segs[k][1]..segs[k][2] : StableAt(i)
                  /\ segs[k][1] = 0 \/ ~StableAt(segs[k][1] - 1)
                  /\ segs[k][2] = n - 1 \/ ~StableAt(segs[k][2] + 1)
            /\ \A k \in 1..(Len(segs) - 1) :
                  /\ segs[k][2] + 1 < segs[k + 1][1]
                  /\ \E i \in (segs[k][2] + 1)..(segs[k + 1][1] - 1) : ~StableAt(i)
            /\ \A i \in 0..(n - 1) :
                  StableAt(i) =>
                     Cardinality({k \in 1..Len(segs) : InSegment(i, segs[k])}) = 1
            /\ (\A i \in 0..(n - 1) : ~StableAt(i)) => segs = << >>

\* two segments were returned, the first closed by an unstable point and the
\* second by the end of the branch, the first of more than one point
C30_Witness ==
    /\ SegmentsDone
    /\ Len(result.value) = 2
    /\ result.value[1][2] > result.value[1][1]
    /\ result.value[2][2] = Len(args.points) - 1
    /\ result.value[1][1] > 0

====
